---- MODULE Spec2Model ----
(***************************************************************************)
(* Model of the agent-response stream reducer of the freight dashboard:    *)
(* call_cortex_agent_streaming (the generator that turns a server-sent     *)
(* event stream into (mode, text) tuples) and the chat-input handler that  *)
(* consumes the tuples into the step list, the per-step reasoning and the  *)
(* final answer (streamlit/streamlit_app.py).                              *)
(*                                                                         *)
(* Text is modelled as a sequence of one-character strings, so that        *)
(* concatenation, slicing, prefix tests, strip(), upper()/lower() and      *)
(* startswith()/substring tests are computed as Python computes them.      *)
(* A JSON value is a record [t, v]: t is the Python type after json.loads  *)
(* ("str", "dict", "list", "num", "null"), v its content; a dict keeps its *)
(* items in insertion order as a sequence of [k, val].                     *)
(***************************************************************************)
EXTENDS Integers, Sequences, FiniteSets, TLC

\* ------------------------------------------------------------------ bounds

\* Events delivered by the stream over one session (all calls together).
MaxEvents == 4

\* Chat interactions (prompts) in one session.
MaxChats == 2

\* Pieces of an SQL text given to the highlighter
MaxTokens == 4

\* steps of a list given to the renderer
MaxRendered == 2

\* steps of a list given to the post-stream redistribution
MaxSteps == 3

\* ------------------------------------------------------------------ text

Whitespace == {" ", "\t", "\n", "\r"}

LowerLetters ==
    <<"a", "b", "c", "d", "e", "f", "g", "h", "i", "j", "k", "l", "m",
      "n", "o", "p", "q", "r", "s", "t", "u", "v", "w", "x", "y", "z">>

UpperLetters ==
    <<"A", "B", "C", "D", "E", "F", "G", "H", "I", "J", "K", "L", "M",
      "N", "O", "P", "Q", "R", "S", "T", "U", "V", "W", "X", "Y", "Z">>

\* str.upper() / str.lower(), one character
UpperChar(c) ==
    IF \E i \in 1..26 : LowerLetters[i] = c
    THEN UpperLetters[CHOOSE i \in 1..26 : LowerLetters[i] = c]
    ELSE c

LowerChar(c) ==
    IF \E i \in 1..26 : UpperLetters[i] = c
    THEN LowerLetters[CHOOSE i \in 1..26 : UpperLetters[i] = c]
    ELSE c

Upper(s) == [i \in 1..Len(s) |-> UpperChar(s[i])]

Lower(s) == [i \in 1..Len(s) |-> LowerChar(s[i])]

\* str.strip(): drop leading and trailing whitespace
Strip(s) ==
    LET keep == {i \in 1..Len(s) : s[i] \notin Whitespace}
    IN  IF keep = {} THEN <<>>
        ELSE LET lo == CHOOSE i \in keep : \A j \in keep : i <= j
                 hi == CHOOSE i \in keep : \A j \in keep : j <= i
             IN  SubSeq(s, lo, hi)

\* s.startswith(p)
StartsWith(s, p) == Len(p) <= Len(s) /\ SubSeq(s, 1, Len(p)) = p

\* p in s (substring test)
Contains(s, p) ==
    \E i \in 0..(Len(s) - Len(p)) : SubSeq(s, i + 1, i + Len(p)) = p

\* s[n:]
SliceFrom(s, n) == IF n >= Len(s) THEN <<>> ELSE SubSeq(s, n + 1, Len(s))

\* str(n) for a non-negative integer
RECURSIVE IntToStr(_)
IntToStr(n) ==
    LET digit == <<"0", "1", "2", "3", "4", "5", "6", "7", "8", "9">>[(n % 10) + 1]
    IN  IF n < 10 THEN <<digit>> ELSE Append(IntToStr(n \div 10), digit)

\* ------------------------------------------------------------------ JSON

JStr(s) == [t |-> "str", v |-> s]

JDict(items) == [t |-> "dict", v |-> items]

JList(items) == [t |-> "list", v |-> items]

JNum == [t |-> "num", v |-> <<>>]

KV(key, val) == [k |-> key, val |-> val]

\* key in data (data a dict)
HasKey(data, key) == \E i \in 1..Len(data.v) : data.v[i].k = key

\* data[key] (data a dict holding key)
Lookup(data, key) ==
    data.v[CHOOSE i \in 1..Len(data.v) : data.v[i].k = key].val

\* data.get(key, "") read as text: the fields the reducer reads as text
\* (message, text) hold strings when present.
GetText(data, key) ==
    IF HasKey(data, key) /\ Lookup(data, key).t = "str"
    THEN Lookup(data, key).v
    ELSE <<>>

\* ------------------------------------------------------------------ SQL detector

_SQL_STARTS ==
    { <<"S", "E", "L", "E", "C", "T">>,
      <<"W", "I", "T", "H">>,
      <<"I", "N", "S", "E", "R", "T">>,
      <<"U", "P", "D", "A", "T", "E">>,
      <<"D", "E", "L", "E", "T", "E">>,
      <<"C", "R", "E", "A", "T", "E">>,
      <<"A", "L", "T", "E", "R">>,
      <<"D", "R", "O", "P">>,
      <<"M", "E", "R", "G", "E">>,
      <<"C", "A", "L", "L">>,
      <<"S", "H", "O", "W">>,
      <<"D", "E", "S", "C", "R", "I", "B", "E">>,
      <<"E", "X", "P", "L", "A", "I", "N">>,
      <<"G", "R", "A", "N", "T">>,
      <<"R", "E", "V", "O", "K", "E">> }

\* (mutant) the text is not stripped before the test
_is_sql_unstripped(x) ==
    /\ x.t = "str"
    /\ x.v # <<>>
    /\ \E kw \in _SQL_STARTS : StartsWith(Upper(x.v), kw)

\* _is_sql on a JSON value: false for a non-string or empty value
_is_sql(x) ==
    /\ x.t = "str"
    /\ x.v # <<>>
    /\ LET stripped == Upper(Strip(x.v))
       IN  \E kw \in _SQL_STARTS : StartsWith(stripped, kw)

\* ------------------------------------------------------------------ nested search

\* None and the empty string are both falsy for every caller of the two
\* searches; both are the empty sequence here.
None == <<>>

MaxDepth == 5

\* (mutant) no field name is tried before query and statement
SqlKeysNone == <<>>

SqlKeys == <<"sql", "generated_sql", "sql_query">>

QueryKeys == <<"query", "statement">>

\* first key of keys whose value in data is truthy and passes _is_sql; 0 if none
FirstSqlKey(data, keys) ==
    LET hit == {i \in 1..Len(keys) :
                   /\ HasKey(data, keys[i])
                   /\ _is_sql(Lookup(data, keys[i]))}
    IN  IF hit = {} THEN 0 ELSE CHOOSE i \in hit : \A j \in hit : i <= j

RECURSIVE find_sql_in_data(_, _)
RECURSIVE find_sql_in_items(_, _, _, _)

\* (mutant) the recursive calls do not count the depth
find_sql_in_items_uncounted(items, i, isDict, depth) ==
    IF i > Len(items) THEN None
    ELSE LET child  == IF isDict THEN items[i].val ELSE items[i]
             result == find_sql_in_data(child, depth)
         IN  IF result # None THEN result
             ELSE find_sql_in_items(items, i + 1, isDict, depth)

\* for v in data.values() / for item in data: first truthy recursive result
find_sql_in_items(items, i, isDict, depth) ==
    IF i > Len(items) THEN None
    ELSE LET child  == IF isDict THEN items[i].val ELSE items[i]
             result == find_sql_in_data(child, depth + 1)
         IN  IF result # None THEN result
             ELSE find_sql_in_items(items, i + 1, isDict, depth)

find_sql_in_data(data, depth) ==
    IF depth > MaxDepth THEN None
    ELSE IF data.t = "str" THEN
        IF _is_sql(JStr(Strip(data.v))) THEN Strip(data.v) ELSE None
    ELSE IF data.t = "dict" THEN
        IF FirstSqlKey(data, SqlKeys) # 0
        THEN Lookup(data, SqlKeys[FirstSqlKey(data, SqlKeys)]).v
        ELSE IF FirstSqlKey(data, QueryKeys) # 0
        THEN Lookup(data, QueryKeys[FirstSqlKey(data, QueryKeys)]).v
        ELSE find_sql_in_items(data.v, 1, TRUE, depth)
    ELSE IF data.t = "list" THEN find_sql_in_items(data.v, 1, FALSE, depth)
    ELSE None

\* first key of query/statement whose value is a non-empty string that is
\* not SQL; 0 if none
FirstDescKey(data) ==
    LET hit == {i \in 1..Len(QueryKeys) :
                   /\ HasKey(data, QueryKeys[i])
                   /\ Lookup(data, QueryKeys[i]).t = "str"
                   /\ Lookup(data, QueryKeys[i]).v # <<>>
                   /\ ~_is_sql(Lookup(data, QueryKeys[i]))}
    IN  IF hit = {} THEN 0 ELSE CHOOSE i \in hit : \A j \in hit : i <= j

RECURSIVE find_description_in_data(_, _)
RECURSIVE find_description_in_items(_, _, _, _)

find_description_in_items(items, i, isDict, depth) ==
    IF i > Len(items) THEN None
    ELSE LET child  == IF isDict THEN items[i].val ELSE items[i]
             result == find_description_in_data(child, depth + 1)
         IN  IF result # None THEN result
             ELSE find_description_in_items(items, i + 1, isDict, depth)

find_description_in_data(data, depth) ==
    IF depth > MaxDepth THEN None
    ELSE IF data.t = "dict" THEN
        IF FirstDescKey(data) # 0
        THEN Strip(Lookup(data, QueryKeys[FirstDescKey(data)]).v)
        ELSE find_description_in_items(data.v, 1, TRUE, depth)
    ELSE IF data.t = "list" THEN
        find_description_in_items(data.v, 1, FALSE, depth)
    ELSE None

\* ------------------------------------------------------------------ event classifier

planning_keywords ==
    { <<"p", "l", "a", "n", "n", "i", "n", "g">>,
      <<"c", "h", "o", "o", "s", "i", "n", "g">>,
      <<"r", "e", "t", "h", "i", "n", "k", "i", "n", "g">>,
      <<"r", "e", "v", "i", "e", "w", "i", "n", "g">>,
      <<"n", "e", "x", "t", " ", "s", "t", "e", "p", "s">>,
      <<"d", "a", "t", "a", " ", "s", "o", "u", "r", "c", "e", "s">> }

tool_keywords ==
    { <<"r", "u", "n", "n", "i", "n", "g">>,
      <<"s", "t", "r", "e", "a", "m", "i", "n", "g">>,
      <<"g", "e", "t", "t", "i", "n", "g">>,
      <<"e", "x", "e", "c", "u", "t", "i", "n", "g">>,
      <<"c", "o", "n", "t", "e", "x", "t">>,
      <<"s", "q", "l">> }

\* (mutant) the tool keywords are tested first
categorize_status_tool_first(message) ==
    LET lower == Lower(message)
    IN  IF \E kw \in tool_keywords : Contains(lower, kw) THEN "tool"
        ELSE IF \E kw \in planning_keywords : Contains(lower, kw) THEN "planning"
        ELSE "planning"

categorize_status(message) ==
    LET lower == Lower(message)
    IN  IF \E kw \in planning_keywords : Contains(lower, kw) THEN "planning"
        ELSE IF \E kw \in tool_keywords : Contains(lower, kw) THEN "tool"
        ELSE "planning"

\* ------------------------------------------------------------------ SQL highlighter

\* html.escape of one character
Escape(c) ==
    CASE c = "&"  -> <<"&", "a", "m", "p", ";">>
      [] c = "<"  -> <<"&", "l", "t", ";">>
      [] c = ">"  -> <<"&", "g", "t", ";">>
      [] c = "\"" -> <<"&", "q", "u", "o", "t", ";">>
      [] c = "'"  -> <<"&", "#", "x", "2", "7", ";">>
      [] OTHER    -> <<c>>

\* The text the highlighter works on is a sequence of items: an escaped
\* character of the input (with its index in the input), a placeholder
\* "\x00HL<i>\x00", or a span of markup around items.
Ch(c, pos) ==
    [k |-> "ch", c |-> c, pos |-> pos, i |-> 0, color |-> "", body |-> <<>>]

Slot(i) ==
    [k |-> "slot", c |-> "", pos |-> 0, i |-> i, color |-> "", body |-> <<>>]

Span(color, body) ==
    [k |-> "span", c |-> "", pos |-> 0, i |-> 0, color |-> color, body |-> body]

\* escaped = html.escape(sql_text)
EscapeText(s) == [p \in 1..Len(s) |-> Ch(s[p], p)]

IsChar(items, i, c) ==
    /\ i >= 1
    /\ i <= Len(items)
    /\ items[i].k = "ch"
    /\ items[i].c = c

\* the escaped character starts with "&": it is one of & < > " '
IsEntity(item) == item.k = "ch" /\ Head(Escape(item.c)) = "&"

\* the text and the protected fragments (_hl_slots)
Work(text, slots) == [text |-> text, slots |-> slots]

\* _slot(frag): the fragment is stored and its placeholder takes its place
Protect(w, color, body) ==
    Work(Append(w.text, Slot(Len(w.slots))), Append(w.slots, Span(color, body)))

Keep(w, item) == Work(Append(w.text, item), w.slots)

\* re.sub(r'/\*.*?\*/', ..., flags=DOTALL)
RECURSIVE BlockComments(_, _, _)
BlockComments(items, i, w) ==
    IF i > Len(items) THEN w
    ELSE LET ends == {j \in (i + 2)..(Len(items) - 1) :
                         IsChar(items, j, "*") /\ IsChar(items, j + 1, "/")}
         IN  IF IsChar(items, i, "/") /\ IsChar(items, i + 1, "*") /\ ends # {}
             THEN LET j == CHOOSE j \in ends : \A e \in ends : j <= e
                  IN  BlockComments(items, j + 2,
                          Protect(w, "comment", SubSeq(items, i, j + 1)))
             ELSE BlockComments(items, i + 1, Keep(w, items[i]))

\* re.sub(r'(--.*?)$', ..., flags=MULTILINE): to the end of the line
RECURSIVE LineComments(_, _, _)
LineComments(items, i, w) ==
    IF i > Len(items) THEN w
    ELSE IF IsChar(items, i, "-") /\ IsChar(items, i + 1, "-")
    THEN LET ends == {e \in (i + 1)..Len(items) :
                         e = Len(items) \/ IsChar(items, e + 1, "\n")}
             e    == CHOOSE e \in ends : \A x \in ends : e <= x
         IN  LineComments(items, e + 1,
                 Protect(w, "comment", SubSeq(items, i, e)))
    ELSE LineComments(items, i + 1, Keep(w, items[i]))

\* re.sub(r"(&#x27;[^&]*?&#x27;)", ...): from an escaped apostrophe to the
\* next one, with no "&" (no escaped character) between them
RECURSIVE Strings(_, _, _)
Strings(items, i, w) ==
    IF i > Len(items) THEN w
    ELSE LET quotes == {j \in (i + 1)..Len(items) : IsChar(items, j, "'")}
             j      == CHOOSE j \in quotes : \A q \in quotes : j <= q
         IN  IF /\ IsChar(items, i, "'")
                /\ quotes # {}
                /\ \A m \in (i + 1)..(j - 1) : ~IsEntity(items[m])
             THEN Strings(items, j + 1, Protect(w, "string", SubSeq(items, i, j)))
             ELSE Strings(items, i + 1, Keep(w, items[i]))

Digits == {"0", "1", "2", "3", "4", "5", "6", "7", "8", "9"}

\* \w on an item: a letter, a digit or an underscore of the input (the
\* escaped characters and the placeholders begin and end with a
\* character that is not \w)
IsWordChar(items, i) ==
    /\ i >= 1
    /\ i <= Len(items)
    /\ items[i].k = "ch"
    /\ \/ items[i].c \in Digits
       \/ items[i].c = "_"
       \/ \E n \in 1..26 : items[i].c \in {LowerLetters[n], UpperLetters[n]}

\* \s on an item
IsSpace(items, i) ==
    /\ i >= 1
    /\ i <= Len(items)
    /\ items[i].k = "ch"
    /\ items[i].c \in Whitespace

\* the characters of the items i..e
Chars(items, i, e) == [n \in 1..(e - i + 1) |-> items[i + n - 1].c]

\* the last item of the word that starts at i (\b before i)
WordEnd(items, i) ==
    CHOOSE e \in i..Len(items) :
        /\ \A n \in i..e : IsWordChar(items, n)
        /\ ~IsWordChar(items, e + 1)

\* the index after the whitespace that starts at i
AfterSpace(items, i) ==
    CHOOSE e \in i..(Len(items) + 1) :
        /\ \A n \in i..(e - 1) : IsSpace(items, n)
        /\ ~IsSpace(items, e)

SqlKeywords ==
    { <<"S", "E", "L", "E", "C", "T">>,
      <<"F", "R", "O", "M">>,
      <<"W", "H", "E", "R", "E">>,
      <<"J", "O", "I", "N">>,
      <<"L", "E", "F", "T">>,
      <<"R", "I", "G", "H", "T">>,
      <<"I", "N", "N", "E", "R">>,
      <<"O", "U", "T", "E", "R">>,
      <<"C", "R", "O", "S", "S">>,
      <<"F", "U", "L", "L">>,
      <<"O", "N">>,
      <<"A", "N", "D">>,
      <<"O", "R">>,
      <<"N", "O", "T">>,
      <<"I", "N">>,
      <<"I", "S">>,
      <<"N", "U", "L", "L">>,
      <<"A", "S">>,
      <<"O", "R", "D", "E", "R">>,
      <<"B", "Y">>,
      <<"G", "R", "O", "U", "P">>,
      <<"H", "A", "V", "I", "N", "G">>,
      <<"L", "I", "M", "I", "T">>,
      <<"O", "F", "F", "S", "E", "T">>,
      <<"U", "N", "I", "O", "N">>,
      <<"A", "L", "L">>,
      <<"D", "I", "S", "T", "I", "N", "C", "T">>,
      <<"I", "N", "S", "E", "R", "T">>,
      <<"I", "N", "T", "O">>,
      <<"V", "A", "L", "U", "E", "S">>,
      <<"U", "P", "D", "A", "T", "E">>,
      <<"S", "E", "T">>,
      <<"D", "E", "L", "E", "T", "E">>,
      <<"C", "R", "E", "A", "T", "E">>,
      <<"A", "L", "T", "E", "R">>,
      <<"D", "R", "O", "P">>,
      <<"T", "A", "B", "L", "E">>,
      <<"V", "I", "E", "W">>,
      <<"I", "N", "D", "E", "X">>,
      <<"W", "I", "T", "H">>,
      <<"C", "A", "S", "E">>,
      <<"W", "H", "E", "N">>,
      <<"T", "H", "E", "N">>,
      <<"E", "L", "S", "E">>,
      <<"E", "N", "D">>,
      <<"B", "E", "T", "W", "E", "E", "N">>,
      <<"L", "I", "K", "E">>,
      <<"E", "X", "I", "S", "T", "S">>,
      <<"A", "S", "C">>,
      <<"D", "E", "S", "C">>,
      <<"T", "O", "P">>,
      <<"O", "V", "E", "R">>,
      <<"P", "A", "R", "T", "I", "T", "I", "O", "N">>,
      <<"W", "I", "N", "D", "O", "W">>,
      <<"R", "O", "W", "S">>,
      <<"R", "A", "N", "G", "E">>,
      <<"P", "R", "E", "C", "E", "D", "I", "N", "G">>,
      <<"F", "O", "L", "L", "O", "W", "I", "N", "G">>,
      <<"C", "U", "R", "R", "E", "N", "T">>,
      <<"R", "O", "W">>,
      <<"R", "E", "C", "U", "R", "S", "I", "V", "E">>,
      <<"L", "A", "T", "E", "R", "A", "L">>,
      <<"Q", "U", "A", "L", "I", "F", "Y">>,
      <<"I", "L", "I", "K", "E">>,
      <<"P", "I", "V", "O", "T">>,
      <<"U", "N", "P", "I", "V", "O", "T">>,
      <<"E", "X", "C", "L", "U", "D", "E">>,
      <<"R", "E", "P", "L", "A", "C", "E">>,
      <<"R", "E", "N", "A", "M", "E">> }

BuiltinFunctions ==
    { <<"C", "O", "U", "N", "T">>,
      <<"S", "U", "M">>,
      <<"A", "V", "G">>,
      <<"M", "I", "N">>,
      <<"M", "A", "X">>,
      <<"C", "O", "A", "L", "E", "S", "C", "E">>,
      <<"N", "V", "L">>,
      <<"I", "F", "F">>,
      <<"I", "F", "N", "U", "L", "L">>,
      <<"N", "U", "L", "L", "I", "F">>,
      <<"C", "A", "S", "T">>,
      <<"T", "R", "Y", "_", "C", "A", "S", "T">>,
      <<"T", "O", "_", "D", "A", "T", "E">>,
      <<"T", "O", "_", "T", "I", "M", "E", "S", "T", "A", "M", "P">>,
      <<"T", "O", "_", "N", "U", "M", "B", "E", "R">>,
      <<"T", "O", "_", "V", "A", "R", "C", "H", "A", "R">>,
      <<"D", "A", "T", "E", "A", "D", "D">>,
      <<"D", "A", "T", "E", "D", "I", "F", "F">>,
      <<"D", "A", "T", "E", "_", "T", "R", "U", "N", "C">>,
      <<"R", "O", "U", "N", "D">>,
      <<"F", "L", "O", "O", "R">>,
      <<"C", "E", "I", "L">>,
      <<"A", "B", "S">>,
      <<"U", "P", "P", "E", "R">>,
      <<"L", "O", "W", "E", "R">>,
      <<"T", "R", "I", "M">>,
      <<"L", "E", "N", "G", "T", "H">>,
      <<"S", "U", "B", "S", "T", "R">>,
      <<"S", "U", "B", "S", "T", "R", "I", "N", "G">>,
      <<"C", "O", "N", "C", "A", "T">>,
      <<"S", "P", "L", "I", "T", "_", "P", "A", "R", "T">>,
      <<"R", "E", "G", "E", "X", "P", "_", "S", "U", "B", "S", "T", "R">>,
      <<"R", "E", "G", "E", "X", "P", "_", "R", "E", "P", "L", "A", "C", "E">>,
      <<"R", "E", "G", "E", "X", "P", "_", "L", "I", "K", "E">>,
      <<"L", "I", "S", "T", "A", "G", "G">>,
      <<"A", "R", "R", "A", "Y", "_", "A", "G", "G">>,
      <<"R", "O", "W", "_", "N", "U", "M", "B", "E", "R">>,
      <<"R", "A", "N", "K">>,
      <<"D", "E", "N", "S", "E", "_", "R", "A", "N", "K">>,
      <<"L", "A", "G">>,
      <<"L", "E", "A", "D">>,
      <<"F", "I", "R", "S", "T", "_", "V", "A", "L", "U", "E">>,
      <<"L", "A", "S", "T", "_", "V", "A", "L", "U", "E">>,
      <<"N", "T", "H", "_", "V", "A", "L", "U", "E">>,
      <<"P", "A", "R", "S", "E", "_", "J", "S", "O", "N">>,
      <<"O", "B", "J", "E", "C", "T", "_", "C", "O", "N", "S", "T", "R", "U", "C", "T">>,
      <<"F", "L", "A", "T", "T", "E", "N">>,
      <<"G", "E", "T">>,
      <<"G", "E", "T", "_", "P", "A", "T", "H">> }

\* One re.sub of the second pass over the text: mode "keyword" is
\* \b(SELECT|...)\b, "builtin" is \b(COUNT|...)\s*(?=\(), "function" is
\* \b([A-Z_]\w*)\s*(?=\(), "number" is \b(\d+(?:\.\d+)?)\b.  The markup
\* of an earlier substitution holds no text that a later one matches.
RECURSIVE Substitute(_, _, _, _)
Substitute(mode, items, i, acc) ==
    IF i > Len(items) THEN acc
    ELSE IF ~(IsWordChar(items, i) /\ ~IsWordChar(items, i - 1))
    THEN Substitute(mode, items, i + 1, Append(acc, items[i]))
    ELSE
        LET e      == WordEnd(items, i)
            word   == Chars(items, i, e)
            paren  == AfterSpace(items, e + 1)
            called == IsChar(items, paren, "(")
            frac   == IF /\ IsChar(items, e + 1, ".")
                         /\ IsWordChar(items, e + 2)
                         /\ \A n \in (e + 2)..WordEnd(items, e + 2) :
                                items[n].c \in Digits
                      THEN WordEnd(items, e + 2)
                      ELSE e
        IN  IF mode = "keyword" /\ Upper(word) \in SqlKeywords
            THEN Substitute(mode, items, e + 1,
                     Append(acc, Span("keyword", SubSeq(items, i, e))))
            ELSE IF mode = "builtin" /\ called /\ Upper(word) \in BuiltinFunctions
            THEN Substitute(mode, items, paren,
                     Append(acc, Span("function", SubSeq(items, i, e))))
            ELSE IF /\ mode = "function"
                    /\ called
                    /\ \/ word[1] = "_"
                       \/ \E n \in 1..26 : word[1] = UpperLetters[n]
            THEN Substitute(mode, items, paren,
                     Append(acc, Span("function", SubSeq(items, i, e))))
            ELSE IF mode = "number" /\ \A n \in i..e : items[n].c \in Digits
            THEN Substitute(mode, items, frac + 1,
                     Append(acc, Span("number", SubSeq(items, i, frac))))
            ELSE Substitute(mode, items, e + 1, acc \o SubSeq(items, i, e))

\* for i, frag in enumerate(_hl_slots): escaped.replace(placeholder, frag);
\* a fragment only holds placeholders of fragments stored before it,
\* whose turn has passed when it is put back: they stay in the result
Restore(items, slots) ==
    [n \in 1..Len(items) |->
        IF items[n].k = "slot" THEN slots[items[n].i + 1] ELSE items[n]]

_highlight_sql(sql_text) ==
    LET escaped  == EscapeText(sql_text)
        blocks   == BlockComments(escaped, 1, Work(<<>>, <<>>))
        lines    == LineComments(blocks.text, 1, Work(<<>>, blocks.slots))
        strings  == Strings(lines.text, 1, Work(<<>>, lines.slots))
        keywords == Substitute("keyword", strings.text, 1, <<>>)
        builtins == Substitute("builtin", keywords, 1, <<>>)
        calls    == Substitute("function", builtins, 1, <<>>)
        numbers  == Substitute("number", calls, 1, <<>>)
    IN  Restore(numbers, strings.slots)

\* ------------------------------------------------------------------ messages

MsgHostMissing ==
    <<"A", "g", "e", "n", "t", " ", "u", "n", "a", "v", "a", "i", "l", "a",
      "b", "l", "e", " ", "-", " ", "S", "N", "O", "W", "F", "L", "A", "K",
      "E", "_", "H", "O", "S", "T", " ", "n", "o", "t", " ", "s", "e", "t",
      ".">>

MsgTokenMissing ==
    <<"A", "g", "e", "n", "t", " ", "u", "n", "a", "v", "a", "i", "l", "a",
      "b", "l", "e", " ", "-", " ", "s", "e", "s", "s", "i", "o", "n", " ",
      "t", "o", "k", "e", "n", " ", "n", "o", "t", " ", "f", "o", "u", "n",
      "d", ".">>

MsgHttpPrefix ==
    <<"A", "g", "e", "n", "t", " ", "r", "e", "t", "u", "r", "n", "e", "d",
      " ", "H", "T", "T", "P", " ">>

MsgNoResponse ==
    <<"N", "o", " ", "r", "e", "s", "p", "o", "n", "s", "e", " ", "f", "r",
      "o", "m", " ", "a", "g", "e", "n", "t", ".">>

MsgTimeout ==
    <<"A", "g", "e", "n", "t", " ", "r", "e", "q", "u", "e", "s", "t", " ",
      "t", "i", "m", "e", "d", " ", "o", "u", "t", ".", " ", "P", "l", "e",
      "a", "s", "e", " ", "t", "r", "y", " ", "a", "g", "a", "i", "n", ".">>

MsgErrorPrefix ==
    <<"A", "g", "e", "n", "t", " ", "e", "r", "r", "o", "r", ":", " ">>

TextType == <<"t", "e", "x", "t">>

\* a (mode, text) tuple yielded by the generator
Tuple(mode, text) == [mode |-> mode, text |-> text]

\* ------------------------------------------------------------------ stream events

\* One server-sent event: its event name (kind), and its data, which is
\* empty, the end marker "[DONE]", not JSON, or JSON (then parsed).
Ev(kind, parsed) == [kind |-> kind, raw |-> "json", parsed |-> parsed]

RawEv(kind, raw) == [kind |-> kind, raw |-> raw, parsed |-> JNum]

TxtPlanningWord ==
    <<"p", "l", "a", "n", "n", "i", "n", "g">>

TxtPlanningApproach ==
    <<"P", "l", "a", "n", "n", "i", "n", "g", " ", "a", "p", "p", "r", "o",
      "a", "c", "h">>

TxtSqlCount ==
    <<"S", "E", "L", "E", "C", "T", " ", "C", "O", "U", "N", "T", "(", "*",
      ")", " ", "F", "R", "O", "M", " ", "L", "O", "A", "D", "S">>

TxtBecause ==
    <<"B", "e", "c", "a", "u", "s", "e", ".", ".", ".">>

TxtAnswer42 ==
    <<"T", "h", "e", " ", "a", "n", "s", "w", "e", "r", " ", "i", "s", " ",
      "4", "2", ".">>

TxtPlanningDots ==
    <<"P", "l", "a", "n", "n", "i", "n", "g", ".", ".", ".">>

TxtExecutingTool ==
    <<"E", "x", "e", "c", "u", "t", "i", "n", "g", " ", "t", "o", "o", "l">>

TxtShowTables ==
    <<"S", "H", "O", "W", " ", "T", "A", "B", "L", "E", "S">>

TxtLookUp ==
    <<"l", "o", "o", "k", " ", "u", "p", " ", "t", "h", "e", " ", "b", "r",
      "o", "k", "e", "r">>

TxtSelect1 ==
    <<"S", "E", "L", "E", "C", "T", " ", "1">>

TxtSelect1Padded ==
    <<" ", "s", "e", "l", "e", "c", "t", " ", "1", " ">>

TxtHi ==
    <<"H", "i">>

TxtThere ==
    <<" ", "t", "h", "e", "r", "e">>

TxtDone ==
    <<"D", "o", "n", "e", ".">>

TxtPartOne ==
    <<"P", "a", "r", "t", " ", "o", "n", "e", ".">>

TxtPartTwo ==
    <<"P", "a", "r", "t", " ", "t", "w", "o", ".">>

TxtOk ==
    <<"o", "k">>

TxtConnReset ==
    <<"c", "o", "n", "n", "e", "c", "t", "i", "o", "n", " ", "r", "e", "s",
      "e", "t">>

EvStatusPlanningApproach ==
    Ev("response.status",
       JDict(<<KV("status", JStr(TxtPlanningWord)),
               KV("message", JStr(TxtPlanningApproach))>>))

EvToolResultSql ==
    Ev("response.tool_result", JDict(<<KV("sql", JStr(TxtSqlCount))>>))

EvThinkingBecause ==
    Ev("response.thinking.delta", JDict(<<KV("text", JStr(TxtBecause))>>))

EvTextAnswer42 ==
    Ev("response.text.delta", JDict(<<KV("text", JStr(TxtAnswer42))>>))

EvStatusPlanning ==
    Ev("response.status", JDict(<<KV("message", JStr(TxtPlanningDots))>>))

EvStatusExecuting ==
    Ev("response.status", JDict(<<KV("message", JStr(TxtExecutingTool))>>))

EvStatusNoMessage ==
    Ev("response.status", JDict(<<KV("status", JStr(TxtPlanningWord))>>))

EvToolUseShow ==
    Ev("response.tool_use", JDict(<<KV("query", JStr(TxtShowTables))>>))

EvStatusShow ==
    Ev("response.status", JDict(<<KV("message", JStr(TxtShowTables))>>))

EvToolStatusDesc ==
    Ev("response.tool_result.status",
       JDict(<<KV("message", JStr(TxtExecutingTool)),
               KV("query", JStr(TxtLookUp))>>))

EvToolNested ==
    Ev("response.tool_result",
       JDict(<<KV("tool_result", JDict(<<KV("sql", JStr(TxtSelect1))>>))>>))

EvToolDesc ==
    Ev("response.tool_use", JDict(<<KV("query", JStr(TxtLookUp))>>))

EvAnalystDelta ==
    Ev("response.tool_result.analyst.delta",
       JDict(<<KV("delta", JDict(<<KV("query", JStr(TxtLookUp)),
                                   KV("sql", JStr(TxtSelect1))>>))>>))

EvToolCallStatement ==
    Ev("response.tool_call", JDict(<<KV("statement", JStr(TxtSelect1Padded))>>))

EvTextH == Ev("response.text.delta", JDict(<<KV("text", JStr(<<"H">>))>>))

EvTextHe ==
    Ev("response.text.delta", JDict(<<KV("text", JStr(<<"H", "e">>))>>))

EvTextHel ==
    Ev("response.text.delta", JDict(<<KV("text", JStr(<<"H", "e", "l">>))>>))

EvTextHello ==
    Ev("response.text.delta",
       JDict(<<KV("text", JStr(<<"H", "e", "l", "l", "o">>))>>))

TextPart(text) == JDict(<<KV("type", JStr(TextType)), KV("text", JStr(text))>>)

EvMessageDeltaList ==
    Ev("message.delta",
       JDict(<<KV("delta",
                  JDict(<<KV("content",
                             JList(<<TextPart(TxtHi), TextPart(TxtThere)>>))>>))>>))

EvMessageDeltaDict ==
    Ev("message.delta",
       JDict(<<KV("delta", JDict(<<KV("content", TextPart(TxtHi))>>))>>))

EvResponseOne ==
    Ev("response", JDict(<<KV("content", JList(<<TextPart(TxtDone)>>))>>))

EvResponseTwo ==
    Ev("response",
       JDict(<<KV("content",
                  JList(<<TextPart(TxtPartOne), TextPart(TxtPartTwo)>>))>>))

EvFallbackEmpty == Ev("", JDict(<<KV("delta", JStr(<<>>))>>))

EvFallbackStr == Ev("", JDict(<<KV("delta", JStr(TxtOk))>>))

EvFallbackContent ==
    Ev("content_block_delta",
       JDict(<<KV("delta", JDict(<<KV("content", TextPart(TxtOk))>>))>>))

EvFallbackContentStr ==
    Ev("content_block_delta",
       JDict(<<KV("delta", JDict(<<KV("content", JStr(<<>>))>>))>>))

EvTextEmpty == Ev("response.text.delta", JDict(<<KV("text", JStr(<<>>))>>))

\* events the loop discards: empty data, the end marker, a body that is
\* not JSON
EvEmptyData == RawEv("response.text.delta", "empty")

EvDone == RawEv("response.status", "done")

EvNotJson == RawEv("response.status", "notjson")

\* a status event whose body is a JSON list: parsed.get raises
EvStatusList == Ev("response.status", JList(<<JStr(TxtPlanningDots)>>))

\* an event of unknown kind whose body is a JSON number: the test
\* "delta" in parsed raises
EvUnknownNumber == Ev("ping", JNum)

\* a text part whose text is a (non-zero) number
NumberPart == JDict(<<KV("type", JStr(TextType)), KV("text", JNum)>>)

\* a message delta whose second text part holds a number for its text
EvMessageDeltaBadPart ==
    Ev("message.delta",
       JDict(<<KV("delta",
                  JDict(<<KV("content",
                             JList(<<TextPart(TxtHi), NumberPart>>))>>))>>))

\* events of kinds the loop has no branch for: SQL nested in the payload,
\* SQL under a top-level "delta" key, and no SQL
EvUnknownNestedSql ==
    Ev("response.chart",
       JDict(<<KV("result", JDict(<<KV("sql", JStr(TxtSelect1))>>))>>))

EvUnknownDeltaSql ==
    Ev("content_block_delta",
       JDict(<<KV("delta", JDict(<<KV("sql", JStr(TxtSelect1))>>))>>))

EvUnknownNoSql ==
    Ev("response.chart", JDict(<<KV("note", JStr(TxtLookUp))>>))

TxtThen ==
    <<"\n", "\n", "T", "h", "e", "n", ".", ".", ".">>

\* reasoning deltas: a second paragraph, and an empty text
EvThinkingThen ==
    Ev("response.thinking.delta", JDict(<<KV("text", JStr(TxtThen))>>))

EvThinkingEmpty ==
    Ev("response.thinking.delta", JDict(<<KV("text", JStr(<<>>))>>))

Event(id) ==
    CASE id = 1  -> EvStatusPlanningApproach
      [] id = 2  -> EvToolResultSql
      [] id = 3  -> EvThinkingBecause
      [] id = 4  -> EvTextAnswer42
      [] id = 5  -> EvStatusPlanning
      [] id = 6  -> EvStatusExecuting
      [] id = 7  -> EvStatusNoMessage
      [] id = 8  -> EvToolUseShow
      [] id = 9  -> EvStatusShow
      [] id = 10 -> EvToolStatusDesc
      [] id = 11 -> EvToolNested
      [] id = 12 -> EvToolDesc
      [] id = 13 -> EvAnalystDelta
      [] id = 14 -> EvToolCallStatement
      [] id = 15 -> EvTextH
      [] id = 16 -> EvTextHe
      [] id = 17 -> EvTextHel
      [] id = 18 -> EvTextHello
      [] id = 19 -> EvTextEmpty
      [] id = 20 -> EvMessageDeltaList
      [] id = 21 -> EvMessageDeltaDict
      [] id = 22 -> EvResponseOne
      [] id = 23 -> EvResponseTwo
      [] id = 24 -> EvFallbackEmpty
      [] id = 25 -> EvFallbackStr
      [] id = 26 -> EvFallbackContent
      [] id = 27 -> EvFallbackContentStr
      [] id = 28 -> EvEmptyData
      [] id = 29 -> EvDone
      [] id = 30 -> EvNotJson
      [] id = 31 -> EvStatusList
      [] id = 32 -> EvUnknownNumber
      [] id = 33 -> EvMessageDeltaBadPart
      [] id = 34 -> EvUnknownNestedSql
      [] id = 35 -> EvUnknownDeltaSql
      [] id = 36 -> EvUnknownNoSql
      [] id = 37 -> EvThinkingThen
      [] id = 38 -> EvThinkingEmpty

\* The event alphabets a stream draws from: each is one upstream scenario
\* (end-to-end, status updates, tool payloads, text deltas, whole-message
\* answer shapes, delta-fallback shapes).
MenuEndToEnd == {1, 2, 3, 4}

MenuStatus == {5, 6, 7, 8, 9}

MenuTool == {10, 11, 12, 13, 14}

MenuText == {15, 16, 17, 18, 19}

MenuAnswer == {4, 20, 21, 22, 23}

MenuFallback == {24, 25, 26, 27}

\* discarded and raising events among events that move every accumulator
MenuSkipped == {3, 4, 5, 28, 29, 30, 31, 32, 33}

\* events of unrecognized kinds
MenuUnknown == {32, 34, 35, 36}

\* reasoning deltas among status updates
MenuThinking == {3, 5, 6, 37, 38}

\* the alphabet of the sessions that take several prompts
MenuSession == {1, 4}

Menus ==
    <<MenuEndToEnd, MenuStatus, MenuTool, MenuText, MenuAnswer, MenuFallback,
      MenuSession, MenuSkipped, MenuUnknown, MenuThinking>>

\* ------------------------------------------------------------------ reducer

\* The generator's locals across the event loop, with the tuples one
\* loop iteration yields, in order.
Reducer(ls, tt, at) ==
    [last_status |-> ls, thinking_text |-> tt, answer_text |-> at,
     emitted |-> <<>>]

Yield(r, mode, text) == [r EXCEPT !.emitted = Append(@, Tuple(mode, text))]

\* (mutant) the status is yielded and last_status is not updated
StatusIfNewStale(r, message) ==
    IF message # <<>> /\ message # r.last_status
    THEN Yield(r, "status", message)
    ELSE r

\* if message and message != last_status: last_status = message; yield
StatusIfNew(r, message) ==
    IF message # <<>> /\ message # r.last_status
    THEN Yield([r EXCEPT !.last_status = message], "status", message)
    ELSE r

\* sql = find_sql_in_data(parsed); if sql: yield ("sql", sql)
SqlIfFound(r, parsed) ==
    LET sql == find_sql_in_data(parsed, 0)
    IN  IF sql # None THEN Yield(r, "sql", sql) ELSE r

\* (mutant) the branch probes the description and forgets the SQL
ProbeDescriptionOnly(r, parsed) ==
    StatusIfNew(r, find_description_in_data(parsed, 0))

\* desc = find_description_in_data(parsed); deduplicated status; then SQL
ProbeDescriptionAndSql(r, parsed) ==
    SqlIfFound(StatusIfNew(r, find_description_in_data(parsed, 0)), parsed)

\* answer_text += text; yield ("answer", answer_text)
AppendAnswer(r, text) ==
    Yield([r EXCEPT !.answer_text = @ \o text], "answer", r.answer_text \o text)

AppendAnswerIfText(r, text) == IF text # <<>> THEN AppendAnswer(r, text) ELSE r

\* item is a dict with type == "text": its text, else the empty text
TextOfPart(item) ==
    IF item.t = "dict" /\ GetText(item, "type") = TextType
    THEN GetText(item, "text")
    ELSE <<>>

\* answer_text += text raises for a text part whose text is a number
PartRaises(item) ==
    /\ item.t = "dict"
    /\ GetText(item, "type") = TextType
    /\ HasKey(item, "text")
    /\ Lookup(item, "text").t = "num"

\* message.delta: for item in content: append every non-empty text part;
\* a part that raises ends the iteration after the tuples already yielded
RECURSIVE AppendParts(_, _, _)
AppendParts(r, items, i) ==
    IF i > Len(items) THEN r
    ELSE IF PartRaises(items[i]) THEN r
    ELSE AppendParts(AppendAnswerIfText(r, TextOfPart(items[i])), items, i + 1)

\* response: for item in content: answer_text = text; yield
RECURSIVE ReplaceParts(_, _, _)
ReplaceParts(r, items, i) ==
    IF i > Len(items) THEN r
    ELSE LET text == TextOfPart(items[i])
             r2   == IF text # <<>>
                     THEN Yield([r EXCEPT !.answer_text = text], "answer", text)
                     ELSE r
         IN  ReplaceParts(r2, items, i + 1)

StatusBranch(r, parsed) ==
    SqlIfFound(
        StatusIfNew(StatusIfNew(r, GetText(parsed, "message")),
                    find_description_in_data(parsed, 0)),
        parsed)

\* (mutant) the tuple carries the delta and not the accumulated text
ThinkingBranchDeltaOnly(r, parsed) ==
    LET text == GetText(parsed, "text")
    IN  IF text # <<>>
        THEN Yield([r EXCEPT !.thinking_text = @ \o text], "thinking", text)
        ELSE r

\* text = parsed.get("text", ""); if text: thinking_text += text; yield
ThinkingBranch(r, parsed) ==
    LET text == GetText(parsed, "text")
    IN  IF text # <<>>
        THEN Yield([r EXCEPT !.thinking_text = @ \o text], "thinking",
                   r.thinking_text \o text)
        ELSE r

\* (mutant) the text delta is taken as a snapshot that replaces the answer
TextDeltaReplaces(r, parsed) ==
    LET text == GetText(parsed, "text")
    IN  IF text # <<>>
        THEN Yield([r EXCEPT !.answer_text = text], "answer", text)
        ELSE r

TextDeltaBranch(r, parsed) == AppendAnswerIfText(r, GetText(parsed, "text"))

MessageDeltaBranch(r, parsed) ==
    IF ~HasKey(parsed, "delta") \/ Lookup(parsed, "delta").t # "dict" THEN r
    ELSE LET delta == Lookup(parsed, "delta")
         IN  IF ~HasKey(delta, "content") THEN r
             ELSE LET content == Lookup(delta, "content")
                  IN  IF content.t = "list" THEN AppendParts(r, content.v, 1)
                      ELSE IF content.t = "dict"
                      THEN AppendAnswerIfText(r, TextOfPart(content))
                      ELSE r

ResponseBranch(r, parsed) ==
    IF r.answer_text # <<>> THEN r
    ELSE IF HasKey(parsed, "content") /\ Lookup(parsed, "content").t = "list"
    THEN ReplaceParts(r, Lookup(parsed, "content").v, 1)
    ELSE r

\* elif "delta" in parsed (parsed a dict)
DeltaFallbackBranch(r, parsed) ==
    LET delta == Lookup(parsed, "delta")
    IN  IF delta.t = "dict" THEN
            IF ~HasKey(delta, "content") THEN r
            ELSE LET content == Lookup(delta, "content")
                 IN  IF content.t = "dict"
                     THEN AppendAnswerIfText(r, TextOfPart(content))
                     ELSE IF content.t = "str" THEN AppendAnswer(r, content.v)
                     ELSE r
        ELSE IF delta.t = "str" THEN AppendAnswer(r, delta.v)
        ELSE r

GetKinds ==
    {"response.status", "response.thinking.delta",
     "response.tool_result.status", "response.text.delta", "message.delta",
     "response"}

ToolKinds ==
    {"response.tool_result.analyst.delta", "response.tool_use",
     "response.tool_call", "tool_use", "response.tool_result"}

\* "delta" in parsed raises for a number or null; parsed["delta"] raises
\* for a list or a string that holds "delta"
DeltaTestRaises(parsed) ==
    \/ parsed.t \in {"num", "null"}
    \/ parsed.t = "list" /\ \E i \in 1..Len(parsed.v) :
           parsed.v[i].t = "str" /\ parsed.v[i].v = <<"d", "e", "l", "t", "a">>
    \/ parsed.t = "str" /\ Contains(parsed.v, <<"d", "e", "l", "t", "a">>)

\* One iteration of the event loop: the locals after it and the tuples
\* it yields.  An exception inside the iteration (except Exception:
\* continue) ends the iteration and keeps what the iteration did before
\* it; only the loop over the parts of a message delta can raise after
\* a yield.
HandleEventData(r, ev) ==
    IF ev.raw # "json" THEN r
    ELSE LET parsed == ev.parsed
             kind   == ev.kind
         IN  IF kind \in GetKinds /\ parsed.t # "dict" THEN r
             ELSE IF kind = "response.status" THEN StatusBranch(r, parsed)
             ELSE IF kind = "response.thinking.delta"
             THEN ThinkingBranch(r, parsed)
             ELSE IF kind = "response.tool_result.status"
             THEN ProbeDescriptionAndSql(
                      StatusIfNew(r, GetText(parsed, "message")), parsed)
             ELSE IF kind \in ToolKinds THEN ProbeDescriptionAndSql(r, parsed)
             ELSE IF kind = "response.text.delta"
             THEN TextDeltaBranch(r, parsed)
             ELSE IF kind = "message.delta" THEN MessageDeltaBranch(r, parsed)
             ELSE IF kind = "response" THEN ResponseBranch(r, parsed)
             ELSE IF DeltaTestRaises(parsed) THEN r
             ELSE IF parsed.t = "dict" /\ HasKey(parsed, "delta")
             THEN DeltaFallbackBranch(r, parsed)
             ELSE SqlIfFound(r, parsed)

\* ------------------------------------------------------------------ chat handler helpers

Step(category, text) == [category |-> category, text |-> text, reasoning |-> <<>>]

\* The body of the chat loop for one (mode, text) tuple: the caller's
\* locals (steps, prev_reasoning_len, full_response) after it.
Caller(st, prl, fr) == [steps |-> st, prev_reasoning_len |-> prl, full_response |-> fr]

OnStatus(c, text) ==
    IF c.steps = <<>> \/ c.steps[Len(c.steps)].text # text
    THEN [c EXCEPT !.steps = Append(@, Step(categorize_status(text), text))]
    ELSE c

\* (mutant) an SQL step with the text of the last step is not appended
OnSqlDeduplicated(c, text) ==
    IF c.steps = <<>> \/ c.steps[Len(c.steps)].text # text
    THEN [c EXCEPT !.steps = Append(@, Step("sql", text))]
    ELSE c

OnSql(c, text) == [c EXCEPT !.steps = Append(@, Step("sql", text))]

OnThinking(c, text) ==
    LET new_chunk == SliceFrom(text, c.prev_reasoning_len)
        c2        == [c EXCEPT !.prev_reasoning_len = Len(text)]
    IN  IF c.steps # <<>> /\ new_chunk # <<>>
        THEN [c2 EXCEPT !.steps[Len(c.steps)].reasoning = @ \o new_chunk]
        ELSE c2

OnAnswer(c, text) == [c EXCEPT !.full_response = text]

ChatLoopBody(c, tuple) ==
    IF tuple.mode = "status" THEN OnStatus(c, tuple.text)
    ELSE IF tuple.mode = "sql" THEN OnSql(c, tuple.text)
    ELSE IF tuple.mode = "thinking" THEN OnThinking(c, tuple.text)
    ELSE OnAnswer(c, tuple.text)

\* re.split(r'\n{2,}', blob): the pieces between maximal runs of two or
\* more newlines
RECURSIVE SplitBlankLines(_)
SplitBlankLines(s) ==
    LET starts == {i \in 1..(Len(s) - 1) : s[i] = "\n" /\ s[i + 1] = "\n"}
    IN  IF starts = {} THEN <<s>>
        ELSE LET i    == CHOOSE x \in starts : \A y \in starts : x <= y
                 rest == {j \in (i + 1)..(Len(s) + 1) : j > Len(s) \/ s[j] # "\n"}
                 j    == CHOOSE x \in rest : \A y \in rest : x <= y
             IN  <<SubSeq(s, 1, i - 1)>> \o SplitBlankLines(SliceFrom(s, j - 1))

\* [c.strip() for c in pieces if c.strip()]
RECURSIVE StripNonEmpty(_)
StripNonEmpty(pieces) ==
    IF pieces = <<>> THEN <<>>
    ELSE LET c == Strip(Head(pieces))
         IN  (IF c # <<>> THEN <<c>> ELSE <<>>) \o StripNonEmpty(Tail(pieces))

\* "\n\n".join(chunks)
RECURSIVE JoinBlank(_)
JoinBlank(chunks) ==
    IF chunks = <<>> THEN <<>>
    ELSE IF Len(chunks) = 1 THEN chunks[1]
    ELSE chunks[1] \o <<"\n", "\n">> \o JoinBlank(Tail(chunks))

\* indices of the steps that are not SQL steps, in order
NonSqlIndices(steps) ==
    LET idx == {i \in 1..Len(steps) : steps[i].category # "sql"}
        RECURSIVE Sorted(_)
        Sorted(S) ==
            IF S = {} THEN <<>>
            ELSE LET m == CHOOSE x \in S : \A y \in S : x <= y
                 IN  <<m>> \o Sorted(S \ {m})
    IN  Sorted(idx)

\* (mutant) the last step takes per_step chunks like the others
RedistributeEvenly(steps) ==
    LET non_sql  == NonSqlIndices(steps)
        n        == Len(non_sql)
        with     == {k \in 1..n : steps[non_sql[k]].reasoning # <<>>}
        without  == {k \in 1..n : steps[non_sql[k]].reasoning = <<>>}
    IN  IF Cardinality(with) = 1 /\ without # {} THEN
            LET blob     == steps[non_sql[CHOOSE k \in with : TRUE]].reasoning
                chunks   == StripNonEmpty(SplitBlankLines(blob))
                q        == Len(chunks) \div n
                per_step == IF q > 1 THEN q ELSE 1
                \* k counts the non-SQL steps from 1; enumerate counts from 0
                start(k) == (k - 1) * per_step
                end(k)   == start(k) + per_step
                posOf(i) == CHOOSE k \in 1..n : non_sql[k] = i
            IN  IF Len(chunks) >= n THEN
                    [i \in 1..Len(steps) |->
                        IF steps[i].category = "sql" THEN steps[i]
                        ELSE [steps[i] EXCEPT !.reasoning =
                                 JoinBlank(SubSeq(chunks, start(posOf(i)) + 1,
                                                  end(posOf(i))))]]
                ELSE steps
        ELSE steps

\* Post-stream redistribution of reasoning across the non-SQL steps
Redistribute(steps) ==
    LET non_sql  == NonSqlIndices(steps)
        n        == Len(non_sql)
        with     == {k \in 1..n : steps[non_sql[k]].reasoning # <<>>}
        without  == {k \in 1..n : steps[non_sql[k]].reasoning = <<>>}
    IN  IF Cardinality(with) = 1 /\ without # {} THEN
            LET blob     == steps[non_sql[CHOOSE k \in with : TRUE]].reasoning
                chunks   == StripNonEmpty(SplitBlankLines(blob))
                q        == Len(chunks) \div n
                per_step == IF q > 1 THEN q ELSE 1
                \* k counts the non-SQL steps from 1; enumerate counts from 0
                start(k) == (k - 1) * per_step
                end(k)   == IF k < n THEN start(k) + per_step ELSE Len(chunks)
                posOf(i) == CHOOSE k \in 1..n : non_sql[k] = i
            IN  IF Len(chunks) >= n THEN
                    [i \in 1..Len(steps) |->
                        IF steps[i].category = "sql" THEN steps[i]
                        ELSE [steps[i] EXCEPT !.reasoning =
                                 JoinBlank(SubSeq(chunks, start(posOf(i)) + 1,
                                                  end(posOf(i))))]]
                ELSE steps
        ELSE steps

\* ------------------------------------------------------------------ environment

\* What reading /snowflake/session/token can do
TokenOutcomes == {"ok", "FileNotFoundError", "PermissionError"}

\* What requests.post can do
PostOutcomes == {"200", "non200", "Timeout", "ConnectionError"}

\* Status codes of a response that is not 200
ErrorStatusCodes == {500}

ErrorDetails == {TxtConnReset}

Prompts == {<<"h", "i">>}

\* ------------------------------------------------------------------ non-streaming client

\* What a call of a function does: it returns a value or raises
Returned(val) == [kind |-> "return", val |-> val]

Raised == [kind |-> "raise", val |-> JStr(<<>>)]

JNull == [t |-> "null", v |-> <<>>]

\* bool(x) of a JSON value (the numbers of the bodies are not zero)
Truthy(x) ==
    CASE x.t \in {"str", "list", "dict"} -> x.v # <<>>
      [] x.t = "num" -> TRUE
      [] OTHER -> FALSE

\* data.get(key, default)
Get(data, key, default) == IF HasKey(data, key) THEN Lookup(data, key) ELSE default

TxtAssistant ==
    <<"a", "s", "s", "i", "s", "t", "a", "n", "t">>

\* str(e) of an exception raised by a body of unexpected shape
TxtBadShape ==
    <<"u", "n", "e", "x", "p", "e", "c", "t", "e", "d", " ", "s", "h", "a", "p", "e">>

\* str(e) of the exception of resp.json() on a body that is not JSON
TxtNotJson ==
    <<"E", "x", "p", "e", "c", "t", "i", "n", "g", " ", "v", "a", "l", "u", "e">>

\* except Exception as e: return f"Agent error: {str(e)}"
AgentError(detail) == Returned(JStr(MsgErrorPrefix \o detail))

\* the text parts one content list adds: item.get("text", "") of every
\* dict item whose type is "text"
RECURSIVE ContentParts(_, _)
ContentParts(items, i) ==
    IF i > Len(items) THEN <<>>
    ELSE (IF items[i].t = "dict" /\ Get(items[i], "type", JNull) = JStr(TextType)
          THEN <<Get(items[i], "text", JStr(<<>>))>>
          ELSE <<>>)
         \o ContentParts(items, i + 1)

\* for msg in messages: the text parts of the assistant messages; the
\* loop raises on a message that is not a dict
RECURSIVE MessageParts(_, _, _)
MessageParts(messages, i, parts) ==
    IF i > Len(messages) THEN [raised |-> FALSE, parts |-> parts]
    ELSE IF messages[i].t # "dict" THEN [raised |-> TRUE, parts |-> parts]
    ELSE IF Get(messages[i], "role", JNull) # JStr(TxtAssistant)
    THEN MessageParts(messages, i + 1, parts)
    ELSE LET content == Get(messages[i], "content", JList(<<>>))
         IN  MessageParts(messages, i + 1,
                 parts \o (IF content.t = "str" THEN <<content>>
                           ELSE IF content.t = "list"
                           THEN ContentParts(content.v, 1)
                           ELSE <<>>))

\* "\n".join(parts) of strings
RECURSIVE JoinLines(_)
JoinLines(parts) ==
    IF parts = <<>> THEN <<>>
    ELSE IF Len(parts) = 1 THEN Head(parts).v
    ELSE Head(parts).v \o <<"\n">> \o JoinLines(Tail(parts))

\* the body of the try block after data = resp.json()
ExtractText(data) ==
    IF data.t # "dict" THEN AgentError(TxtBadShape)
    ELSE
        LET listed   == Get(data, "messages", JList(<<>>))
            messages == IF ~Truthy(listed) /\ HasKey(data, "message")
                        THEN JList(<<Lookup(data, "message")>>)
                        ELSE listed
        IN  IF messages.t \in {"num", "null"} \/ (messages.t # "list" /\ Truthy(messages))
            THEN AgentError(TxtBadShape)
            ELSE
                LET found == MessageParts(
                                 IF messages.t = "list" THEN messages.v ELSE <<>>,
                                 1, <<>>)
                    kept  == SelectSeq(found.parts, Truthy)
                IN  IF found.raised THEN AgentError(TxtBadShape)
                    ELSE IF found.parts # <<>> THEN
                        IF \E n \in 1..Len(kept) : kept[n].t # "str"
                        THEN AgentError(TxtBadShape)
                        ELSE Returned(JStr(JoinLines(kept)))
                    ELSE IF HasKey(data, "text") THEN Returned(Lookup(data, "text"))
                    ELSE Returned(JStr(MsgNoResponse))

\* env: whether SNOWFLAKE_HOST is set, what reading the token does, what
\* requests.post does, and the body of a 200 response (invalid: not JSON)
call_cortex_agent(env) ==
    IF ~env.host THEN Returned(JStr(MsgHostMissing))
    ELSE IF env.token = "FileNotFoundError" THEN Returned(JStr(MsgTokenMissing))
    ELSE IF env.token # "ok" THEN Raised
    ELSE IF env.post = "Timeout" THEN Returned(JStr(MsgTimeout))
    ELSE IF env.post = "ConnectionError" THEN AgentError(TxtConnReset)
    ELSE IF env.post = "non200"
    THEN Returned(JStr(MsgHttpPrefix \o IntToStr(CHOOSE c \in ErrorStatusCodes : TRUE)))
    ELSE IF env.body.t = "invalid" THEN AgentError(TxtNotJson)
    ELSE ExtractText(env.body)

\* ------------------------------------------------------------------ risk badge

TxtNA ==
    <<"N", "/", "A">>

TxtNoneLevel ==
    <<"N", "O", "N", "E">>

TxtLow ==
    <<"L", "O", "W">>

TxtMedium ==
    <<"M", "E", "D", "I", "U", "M">>

TxtHigh ==
    <<"H", "I", "G", "H">>

TxtCritical ==
    <<"C", "R", "I", "T", "I", "C", "A", "L">>

CssLow ==
    <<"r", "i", "s", "k", "-", "l", "o", "w">>

CssMedium ==
    <<"r", "i", "s", "k", "-", "m", "e", "d", "i", "u", "m">>

CssHigh ==
    <<"r", "i", "s", "k", "-", "h", "i", "g", "h">>

CssCritical ==
    <<"r", "i", "s", "k", "-", "c", "r", "i", "t", "i", "c", "a", "l">>

CssNA ==
    <<"r", "i", "s", "k", "-", "n", "a">>

\* str(level): the text of a string, "None" for None
Str(level) == IF level.t = "str" THEN level.v ELSE <<"N", "o", "n", "e">>

BadgeOpen ==
    <<"<", "s", "p", "a", "n", " ", "c", "l", "a", "s", "s", "=", "\"", "r", "i", "s", "k", "-", "b", "a", "d", "g", "e", " ">>

BadgeClose ==
    <<"<", "/", "s", "p", "a", "n", ">">>

risk_badge(level) ==
    LET level_str == IF Truthy(level) THEN Upper(Str(level)) ELSE TxtNA
        css_class ==
            CASE level_str = TxtLow -> CssLow
              [] level_str = TxtMedium -> CssMedium
              [] level_str = TxtHigh -> CssHigh
              [] level_str = TxtCritical -> CssCritical
              [] level_str = TxtNA -> CssNA
              [] level_str = TxtNoneLevel -> CssNA
              [] OTHER -> CssNA
    IN  BadgeOpen \o css_class \o <<"\"", ">">> \o Str(level) \o BadgeClose

\* ------------------------------------------------------------------ step renderer

\* The fragment is a sequence of pieces: k is "markup" (v a literal of
\* the function), "text" (v the escaped characters of a text, one entry
\* per character) or "code" (v the highlighted SQL).
Markup(v) == [k |-> "markup", v |-> v]

\* html_mod.escape(s)
Escaped(s) == [k |-> "text", v |-> [p \in 1..Len(s) |-> Escape(s[p])]]

Code(items) == [k |-> "code", v |-> items]

\* len(display) > 1500: display[:1500]
ReasoningBudget == 1500

\* the character "\u2026"
Ellipsis == "\\u2026"

ReasoningOpen == "<div style=\"font-size:0.75rem;...;max-height:200px;overflow-y:auto\">"

DivClose == "</div>"

SqlOpen == "<details open class=\"sql-details\"><summary>SQL Query<span>SQL</span></summary><pre><code>"

SqlClose == "</code></pre></details>"

StepOpen(category) ==
    IF category = "planning"
    THEN "<div style=\"...border-left:3px solid #1a6ce7;...\"><span>\\u2713</span> "
    ELSE "<div style=\"...border-left:3px solid #e8a317;...\"><span>\\u26a1</span> "

Processing == "<div style=\"padding:12px 0\"><em>Processing...</em></div>"

FragmentOpen == "<div style=\"padding:8px 4px;...;box-sizing:border-box\">"

\* reasoning_block of one step
ReasoningBlock(step_reasoning) ==
    IF step_reasoning # <<>>
    THEN LET display == IF Len(step_reasoning) > ReasoningBudget
                        THEN SubSeq(step_reasoning, 1, ReasoningBudget)
                             \o <<Ellipsis>>
                        ELSE step_reasoning
         IN  <<Markup(ReasoningOpen), Escaped(display), Markup(DivClose)>>
    ELSE <<>>

\* what one step appends to parts
RenderStep(step) ==
    IF step.category = "sql"
    THEN <<Markup(SqlOpen), Code(_highlight_sql(step.text)), Markup(SqlClose)>>
    ELSE <<Markup(StepOpen(step.category)), Escaped(step.text)>>
         \o ReasoningBlock(step.reasoning)
         \o <<Markup(DivClose)>>

RECURSIVE RenderSteps(_)
RenderSteps(steps) ==
    IF steps = <<>> THEN <<>>
    ELSE RenderStep(Head(steps)) \o RenderSteps(Tail(steps))

render_thinking_html(steps) ==
    LET parts == RenderSteps(steps)
        body  == IF parts = <<>> THEN <<Markup(Processing)>> ELSE parts
    IN  <<Markup(FragmentOpen)>> \o body \o <<Markup(DivClose)>>

\* ------------------------------------------------------------------ state

VARIABLES
    menu,               \* which event alphabet the upstream stream draws from
    hostSet,            \* the environment variable SNOWFLAKE_HOST is set
    received,           \* events delivered by the stream in this session
    pc,                 \* where the generator is: idle, host, token, post, loop,
                        \*   completed, failed, timedout, raised
    evs,                \* ids of the events delivered to the current call
    last_status,        \* generator locals
    thinking_text,
    answer_text,
    pending,            \* tuples yielded and not yet taken by the chat loop
    out,                \* tuples the chat loop has received in this call
    tokenRead,          \* the token file was opened in this call
    connOpened,         \* requests.post was called in this call
    respOpen,           \* a response object is held and not closed
    chat,               \* chat handler: ready, loop, crashed
    steps,              \* chat handler locals
    prev_reasoning_len,
    full_response,
    agent_messages,     \* st.session_state.agent_messages
    fn,                 \* helper function under evaluation ("none": the app runs)
    arg,                \* its argument
    result,             \* its return value
    returned            \* it has returned

\* one evaluation of a helper function
call == <<fn, arg, result, returned>>

vars ==
    <<call, menu, hostSet, received, pc, evs, last_status, thinking_text, answer_text, pending,
      out, tokenRead, connOpened, respOpen, chat, steps, prev_reasoning_len,
      full_response, agent_messages>>

genLocals == <<last_status, thinking_text, answer_text>>

callerLocals == <<steps, prev_reasoning_len, full_response>>

io == <<tokenRead, connOpened, respOpen>>

Terminal == {"completed", "failed", "timedout"}

Init ==
    /\ menu \in 1..Len(Menus)
    /\ hostSet \in BOOLEAN
    /\ received = 0
    /\ pc = "idle"
    /\ evs = <<>>
    /\ last_status = <<>>
    /\ thinking_text = <<>>
    /\ answer_text = <<>>
    /\ pending = <<>>
    /\ out = <<>>
    /\ tokenRead = FALSE
    /\ connOpened = FALSE
    /\ respOpen = FALSE
    /\ chat = "ready"
    /\ steps = <<>>
    /\ prev_reasoning_len = 0
    /\ full_response = <<>>
    /\ agent_messages = <<>>
    /\ fn = "none"
    /\ arg = <<>>
    /\ result = <<>>
    /\ returned = FALSE

\* ------------------------------------------------------------------ chat handler

UserTurns ==
    Cardinality({i \in 1..Len(agent_messages) : agent_messages[i].role = "user"})

\* Prompts a session takes: sessions of several prompts draw their events
\* from the session alphabet, the other alphabets are explored over one.
ChatsAllowed == IF Menus[menu] = MenuSession THEN MaxChats ELSE 1

\* st.chat_input returns a prompt: the user turn is stored, the locals are
\* initialised and the for loop calls the generator.
ChatInput ==
    /\ chat \in {"ready", "crashed"}
    /\ UserTurns < ChatsAllowed
    /\ \E prompt \in Prompts :
           agent_messages' =
               Append(agent_messages, [role |-> "user", content |-> prompt])
    /\ steps' = <<>>
    /\ prev_reasoning_len' = 0
    /\ full_response' = <<>>
    /\ chat' = "loop"
    /\ pc' = "host"
    /\ evs' = <<>>
    /\ out' = <<>>
    /\ pending' = <<>>
    /\ last_status' = <<>>
    /\ thinking_text' = <<>>
    /\ answer_text' = <<>>
    /\ tokenRead' = FALSE
    /\ connOpened' = FALSE
    /\ respOpen' = FALSE
    /\ UNCHANGED <<call, menu, hostSet, received>>

\* One pass of the for loop body over the next yielded tuple
ChatLoop ==
    /\ chat = "loop"
    /\ pending # <<>>
    /\ LET c == ChatLoopBody(Caller(steps, prev_reasoning_len, full_response),
                             Head(pending))
       IN  /\ steps' = c.steps
           /\ prev_reasoning_len' = c.prev_reasoning_len
           /\ full_response' = c.full_response
    /\ out' = Append(out, Head(pending))
    /\ pending' = Tail(pending)
    /\ UNCHANGED <<call, menu, hostSet, received, pc, evs, genLocals, io, chat, agent_messages>>

\* (mutant) the assistant turn is stored with the steps as they were
\* before the redistribution
ChatFinishStaleSteps ==
    /\ chat = "loop"
    /\ pending = <<>>
    /\ pc \in Terminal
    /\ steps' = Redistribute(steps)
    /\ agent_messages' =
           Append(agent_messages,
                  [role |-> "assistant", content |-> full_response,
                   thinking_steps |-> steps])
    /\ chat' = "ready"
    /\ pc' = "idle"
    /\ UNCHANGED <<call, menu, hostSet, received, evs, genLocals, pending, out, io,
                   prev_reasoning_len, full_response>>

\* The generator is exhausted: redistribute the reasoning, render, and
\* store the assistant turn.
ChatFinish ==
    /\ chat = "loop"
    /\ pending = <<>>
    /\ pc \in Terminal
    /\ steps' = Redistribute(steps)
    /\ agent_messages' =
           Append(agent_messages,
                  [role |-> "assistant", content |-> full_response,
                   thinking_steps |-> Redistribute(steps)])
    /\ chat' = "ready"
    /\ pc' = "idle"
    /\ UNCHANGED <<call, menu, hostSet, received, evs, genLocals, pending, out, io,
                   prev_reasoning_len, full_response>>

\* The generator raised: the exception leaves the for loop and the handler
ChatCrash ==
    /\ chat = "loop"
    /\ pending = <<>>
    /\ pc = "raised"
    /\ chat' = "crashed"
    /\ UNCHANGED <<call, menu, hostSet, received, pc, evs, genLocals, pending, out, io,
                   callerLocals, agent_messages>>

\* ------------------------------------------------------------------ generator

Answer(text) == <<Tuple("answer", text)>>

\* (mutant) the message is yielded and the return is missing
CheckHostNoReturn ==
    /\ pc = "host"
    /\ pc' = "token"
    /\ pending' = IF hostSet THEN pending ELSE Answer(MsgHostMissing)
    /\ UNCHANGED <<call, menu, hostSet, received, evs, genLocals, out, io, chat,
                   callerLocals, agent_messages>>

\* host = os.getenv("SNOWFLAKE_HOST"); if not host: yield ...; return
CheckHost ==
    /\ pc = "host"
    /\ IF hostSet
       THEN /\ pc' = "token"
            /\ UNCHANGED pending
       ELSE /\ pc' = "failed"
            /\ pending' = Answer(MsgHostMissing)
    /\ UNCHANGED <<call, menu, hostSet, received, evs, genLocals, out, io, chat, callerLocals,
                   agent_messages>>

\* token = open(...).read(); only FileNotFoundError is caught
ReadToken ==
    /\ pc = "token"
    /\ tokenRead' = TRUE
    /\ \E outcome \in TokenOutcomes :
           CASE outcome = "ok" ->
                    /\ pc' = "post"
                    /\ UNCHANGED pending
             [] outcome = "FileNotFoundError" ->
                    /\ pc' = "failed"
                    /\ pending' = Answer(MsgTokenMissing)
             [] OTHER ->
                    /\ pc' = "raised"
                    /\ UNCHANGED pending
    /\ UNCHANGED <<call, menu, hostSet, received, evs, genLocals, out, connOpened, respOpen,
                   chat, callerLocals, agent_messages>>

\* resp = requests.post(..., timeout=120, stream=True) and the status check
Post ==
    /\ pc = "post"
    /\ connOpened' = TRUE
    /\ \E outcome \in PostOutcomes :
           CASE outcome = "200" ->
                    /\ pc' = "loop"
                    /\ respOpen' = TRUE
                    /\ UNCHANGED pending
             [] outcome = "non200" ->
                    /\ pc' = "failed"
                    /\ respOpen' = TRUE
                    /\ \E code \in ErrorStatusCodes :
                           pending' = Answer(MsgHttpPrefix \o IntToStr(code))
             [] outcome = "Timeout" ->
                    /\ pc' = "timedout"
                    /\ UNCHANGED respOpen
                    /\ pending' = Answer(MsgTimeout)
             [] OTHER ->
                    /\ pc' = "failed"
                    /\ UNCHANGED respOpen
                    /\ \E detail \in ErrorDetails :
                           pending' = Answer(MsgErrorPrefix \o detail)
    /\ thinking_text' = <<>>
    /\ answer_text' = <<>>
    /\ last_status' = <<>>
    /\ UNCHANGED <<call, menu, hostSet, received, evs, out, tokenRead, chat, callerLocals,
                   agent_messages>>

\* for event in client.events(): one event of the stream is handled
HandleEvent ==
    /\ pc = "loop"
    /\ pending = <<>>
    /\ received < MaxEvents
    /\ \E id \in Menus[menu] :
           LET r == HandleEventData(
                        Reducer(last_status, thinking_text, answer_text),
                        Event(id))
           IN  /\ evs' = Append(evs, id)
               /\ last_status' = r.last_status
               /\ thinking_text' = r.thinking_text
               /\ answer_text' = r.answer_text
               /\ pending' = r.emitted
    /\ received' = received + 1
    /\ UNCHANGED <<call, menu, hostSet, pc, out, io, chat, callerLocals, agent_messages>>

\* (mutant) the placeholder is yielded whenever the stream ends
StreamEndAlwaysPlaceholder ==
    /\ pc = "loop"
    /\ pending = <<>>
    /\ pending' = Answer(MsgNoResponse)
    /\ pc' = "completed"
    /\ UNCHANGED <<call, menu, hostSet, received, evs, genLocals, out, io, chat, callerLocals,
                   agent_messages>>

\* the stream is exhausted: if not answer_text: yield the placeholder
StreamEnd ==
    /\ pc = "loop"
    /\ pending = <<>>
    /\ pending' = IF answer_text = <<>> THEN Answer(MsgNoResponse) ELSE <<>>
    /\ pc' = "completed"
    /\ UNCHANGED <<call, menu, hostSet, received, evs, genLocals, out, io, chat, callerLocals,
                   agent_messages>>

\* except requests.exceptions.Timeout while reading the stream
StreamTimeout ==
    /\ pc = "loop"
    /\ pending = <<>>
    /\ pending' = Answer(MsgTimeout)
    /\ pc' = "timedout"
    /\ UNCHANGED <<call, menu, hostSet, received, evs, genLocals, out, io, chat, callerLocals,
                   agent_messages>>

\* except Exception as e while reading the stream
StreamError ==
    /\ pc = "loop"
    /\ pending = <<>>
    /\ \E detail \in ErrorDetails : pending' = Answer(MsgErrorPrefix \o detail)
    /\ pc' = "failed"
    /\ UNCHANGED <<call, menu, hostSet, received, evs, genLocals, out, io, chat, callerLocals,
                   agent_messages>>

\* ------------------------------------------------------------------ specification

Next ==
    \/ ChatInput
    \/ CheckHost
    \/ ReadToken
    \/ Post
    \/ HandleEvent
    \/ StreamEnd
    \/ StreamTimeout
    \/ StreamError
    \/ ChatLoop
    \/ ChatFinish
    \/ ChatCrash

Spec == Init /\ [][Next]_vars

\* ------------------------------------------------------------------ helper functions

\* The helper functions evaluated on their own: one call each, on an
\* argument drawn from the inputs below, while the app does nothing.
app ==
    <<menu, hostSet, received, pc, evs, last_status, thinking_text, answer_text, pending,
      out, tokenRead, connOpened, respOpen, chat, steps, prev_reasoning_len,
      full_response, agent_messages>>

AppIdle ==
    /\ menu = 1
    /\ hostSet = TRUE
    /\ received = 0
    /\ pc = "idle"
    /\ evs = <<>>
    /\ last_status = <<>>
    /\ thinking_text = <<>>
    /\ answer_text = <<>>
    /\ pending = <<>>
    /\ out = <<>>
    /\ tokenRead = FALSE
    /\ connOpened = FALSE
    /\ respOpen = FALSE
    /\ chat = "ready"
    /\ steps = <<>>
    /\ prev_reasoning_len = 0
    /\ full_response = <<>>
    /\ agent_messages = <<>>

\* texts given to _is_sql: whitespace, a word in some case, a tail
LeadingSpace == {<<>>, <<" ">>, <<" ", " ">>, <<"\t">>, <<"\n", " ">>}

SqlWords == _SQL_STARTS \cup {Lower(kw) : kw \in _SQL_STARTS}

OtherWords ==
    { <<"p", "l", "e", "a", "s", "e", " ", "r", "u", "n", " ", "a", " ", "r", "e", "p", "o", "r", "t">>,
      <<"s", "e", "l", "e", "c">>,
      <<"x", " ", "s", "e", "l", "e", "c", "t">>,
      <<"S", "e", "l", "e", "c", "t">>,
      <<"w", "I", "t", "H">>,
      <<"S", "E", "L", "E", "C", "T", "I", "O", "N">>,
      <<"1">>,
      <<>> }

Tails == {<<>>, <<" ", "1">>, <<" ">>}

IsSqlTexts ==
    {lead \o word \o tail :
        lead \in LeadingSpace, word \in SqlWords \cup OtherWords, tail \in Tails}

\* and values that are not strings: a number, null, a list, a dict
NotStrings ==
    {JNum, [t |-> "null", v |-> <<>>], JList(<<JStr(TxtSelect1)>>),
     JDict(<<KV("sql", JStr(TxtSelect1))>>)}

IsSqlInputs == {JStr(s) : s \in IsSqlTexts} \cup NotStrings

\* status messages given to categorize_status: a keyword of either list
\* in lower or upper case, or another word, then nothing or a keyword
NeutralWords ==
    { <<"D", "o", "n", "e">>,
      <<"p", "l", "a", "n">>,
      <<"T", "h", "i", "n", "k", "i", "n", "g", " ", "h", "a", "r", "d">>,
      <<"c", "o", "n", "t", "e", "x", "t", "u", "a", "l">>,
      <<>> }

StatusKeywords == planning_keywords \cup tool_keywords

StatusHeads ==
    StatusKeywords \cup {Upper(kw) : kw \in StatusKeywords} \cup NeutralWords

StatusTails == {<<>>} \cup {<<" ">> \o kw : kw \in StatusKeywords}

CategorizeInputs ==
    {head \o tail : head \in StatusHeads, tail \in StatusTails}

\* SQL texts given to _highlight_sql: up to MaxTokens pieces, each a
\* keyword, a function call, a number, a quote, an ampersand, a comment
\* delimiter or a line end; and the text of the documented example
SqlPieces ==
    { <<"S", "E", "L", "E", "C", "T">>,
      <<"C", "O", "U", "N", "T", "(">>,
      <<"1">>,
      <<"'">>,
      <<"&">>,
      <<"-", "-">>,
      <<"/", "*">>,
      <<"*", "/">>,
      <<"\n">> }

RECURSIVE Concat(_)
Concat(pieces) ==
    IF pieces = <<>> THEN <<>> ELSE Head(pieces) \o Concat(Tail(pieces))

TxtSelectExample ==
    <<"S", "E", "L", "E", "C", "T", " ", "'", "S", "E", "L", "E", "C", "T", "'", " ", "F", "R", "O", "M", " ", "t", " ", "-", "-", " ", "S", "E", "L", "E", "C", "T">>

HighlightInputs ==
    {Concat(pieces) : pieces \in UNION {[1..n -> SqlPieces] : n \in 0..MaxTokens}}
        \cup {TxtSelectExample}

\* bodies of a 200 response to the non-streaming client
Msg(role, content) == JDict(<<KV("role", JStr(role)), KV("content", content)>>)

TxtUser ==
    <<"u", "s", "e", "r">>

Bodies ==
    { JDict(<<KV("messages",
                 JList(<<Msg(TxtAssistant,
                             JList(<<TextPart(TxtHi), TextPart(TxtThere)>>))>>))>>),
      JDict(<<KV("messages",
                 JList(<<Msg(TxtUser, JStr(TxtLookUp)),
                         Msg(TxtAssistant, JStr(TxtHi))>>))>>),
      JDict(<<KV("messages",
                 JList(<<Msg(TxtAssistant, JStr(TxtHi)),
                         Msg(TxtAssistant, JStr(TxtDone))>>))>>),
      JDict(<<KV("message", Msg(TxtAssistant, JStr(TxtHi)))>>),
      JDict(<<KV("messages", JList(<<>>)),
              KV("message", Msg(TxtAssistant, JList(<<TextPart(TxtHi)>>)))>>),
      JDict(<<KV("messages", JList(<<Msg(TxtAssistant, JStr(TxtHi))>>)),
              KV("text", JStr(TxtOk))>>),
      JDict(<<KV("messages", JList(<<Msg(TxtAssistant, JList(<<>>))>>)),
              KV("text", JStr(TxtOk))>>),
      JDict(<<KV("messages", JList(<<Msg(TxtUser, JStr(TxtLookUp))>>))>>),
      JDict(<<KV("messages",
                 JList(<<Msg(TxtAssistant, JList(<<TextPart(<<>>)>>))>>))>>),
      JDict(<<KV("messages",
                 JList(<<Msg(TxtAssistant, JList(<<NumberPart>>))>>))>>),
      JDict(<<KV("messages", JList(<<JStr(TxtHi)>>))>>),
      JDict(<<KV("messages", JNum)>>),
      JDict(<<KV("text", JStr(TxtOk))>>),
      JDict(<<KV("text", JNum)>>),
      JDict(<<>>),
      JList(<<JStr(TxtHi)>>),
      [t |-> "invalid", v |-> <<>>] }

AgentInputs ==
    [host : BOOLEAN, token : TokenOutcomes, post : PostOutcomes, body : Bodies]

\* risk levels given to risk_badge: the known levels in upper and lower
\* case, other words, the empty string and None
LevelWords ==
    { <<"L", "O", "W">>,
      <<"M", "E", "D", "I", "U", "M">>,
      <<"H", "I", "G", "H">>,
      <<"C", "R", "I", "T", "I", "C", "A", "L">>,
      <<"N", "/", "A">>,
      <<"N", "O", "N", "E">>,
      <<"U", "N", "K", "N", "O", "W", "N">>,
      <<"S", "E", "V", "E", "R", "E">>,
      <<"L", "O", "W", "E", "R">>,
      <<"X">> }

LevelInputs ==
    {JStr(w) : w \in LevelWords} \cup {JStr(Lower(w)) : w \in LevelWords}
        \cup {JStr(<<>>), JNull}

\* payloads given to the two nested searches: a dict of one or two
\* fields whose values are a string, a number, a list of one of those or
\* a dict of one field; and a holder wrapped in up to MaxDepth + 2 dicts
\* or lists
TxtSelect2Padded ==
    <<" ", "s", "e", "l", "e", "c", "t", " ", "2", " ">>

PayloadKeys == {"sql", "sql_query", "query", "data"}

PayloadLeaves == {JStr(TxtSelect1), JStr(TxtSelect2Padded), JStr(TxtLookUp), JNum}

PayloadValues ==
    PayloadLeaves
        \cup {JList(<<leaf>>) : leaf \in PayloadLeaves}
        \cup {JDict(<<KV(k, leaf)>>) : k \in PayloadKeys, leaf \in PayloadLeaves}

FlatPayloads ==
    {JDict(<<KV(k, v)>>) : k \in PayloadKeys, v \in PayloadValues}
        \cup {JDict(<<KV(k[1], v1), KV(k[2], v2)>>) :
                  k \in {kk \in PayloadKeys \X PayloadKeys : kk[1] # kk[2]},
                  v1 \in PayloadValues, v2 \in PayloadValues}

\* x inside n containers: dicts with the key "data", or lists
RECURSIVE Wrapped(_, _, _)
Wrapped(x, n, inDicts) ==
    IF n = 0 THEN x
    ELSE Wrapped(IF inDicts THEN JDict(<<KV("data", x)>>) ELSE JList(<<x>>),
                 n - 1, inDicts)

Holders ==
    {JStr(TxtSelect1), JStr(TxtLookUp)}
        \cup {JDict(<<KV(k, JStr(TxtSelect1))>>) : k \in PayloadKeys}
        \cup {JDict(<<KV(k, JStr(TxtLookUp))>>) : k \in PayloadKeys}

DeepPayloads ==
    {Wrapped(x, n, inDicts) :
        x \in Holders, n \in 0..(MaxDepth + 2), inDicts \in BOOLEAN}

PayloadInputs == FlatPayloads \cup DeepPayloads

\* step lists given to render_thinking_html: up to MaxRendered steps of
\* every category, with no reasoning, a short one (with characters to
\* escape), and reasonings of one character less than the budget, the
\* budget, and one more
Long(n) == [p \in 1..n |-> "x"]

TxtLess ==
    <<"a", "<", "b">>

RenderedReasonings ==
    {<<>>, TxtLess, Long(ReasoningBudget - 1), Long(ReasoningBudget),
     Long(ReasoningBudget + 1)}

RenderedSteps ==
    [category : {"planning", "tool", "sql"},
     text : {TxtSelect1},
     reasoning : RenderedReasonings]

RenderInputs ==
    UNION {[1..n -> RenderedSteps] : n \in 0..MaxRendered}

\* step lists at the end of a stream: up to MaxSteps steps, SQL or not,
\* with no reasoning, reasonings of one to four paragraphs, and a
\* reasoning of blank lines only
TxtA == <<"a">>

TxtTwoChunks == <<"a", "\n", "\n", "b">>

TxtThreeChunks == <<"a", "\n", "\n", "b", "\n", "\n", "c">>

TxtPaddedChunks == <<" ", "a", "\n", "\n", "\n", " ", "b", " ", "\n", "\n">>

TxtFourChunks ==
    <<"a", "\n", "b", "\n", "\n", "c", "\n", "\n", "d", "\n", "\n", "e">>

TxtBlankLines == <<"\n", "\n">>

StreamedReasonings ==
    {<<>>, TxtA, TxtTwoChunks, TxtThreeChunks, TxtPaddedChunks,
     TxtFourChunks, TxtBlankLines}

StreamedSteps ==
    [category : {"planning", "sql"},
     text : {TxtSelect1},
     reasoning : StreamedReasonings]

RedistributeInputs ==
    UNION {[1..n -> StreamedSteps] : n \in 0..MaxSteps}

Functions ==
    {"redistribute", "_is_sql", "categorize_status", "_highlight_sql", "call_cortex_agent",
     "risk_badge", "find_sql_in_data", "find_description_in_data",
     "render_thinking_html"}

Inputs(f) ==
    CASE f = "_is_sql" -> IsSqlInputs
      [] f = "categorize_status" -> CategorizeInputs
      [] f = "_highlight_sql" -> HighlightInputs
      [] f = "call_cortex_agent" -> AgentInputs
      [] f = "risk_badge" -> LevelInputs
      [] f = "find_sql_in_data" -> PayloadInputs
      [] f = "find_description_in_data" -> PayloadInputs
      [] f = "render_thinking_html" -> RenderInputs
      [] f = "redistribute" -> RedistributeInputs

InitFunctions ==
    /\ AppIdle
    /\ fn \in Functions
    /\ arg \in Inputs(fn)
    /\ result = <<>>
    /\ returned = FALSE

\* the function returns value
Return(value) ==
    /\ ~returned
    /\ returned' = TRUE
    /\ result' = value
    /\ UNCHANGED <<fn, arg, app>>

Call_is_sql == fn = "_is_sql" /\ Return(_is_sql(arg))

Call_categorize_status ==
    fn = "categorize_status" /\ Return(categorize_status(arg))

Call_highlight_sql == fn = "_highlight_sql" /\ Return(_highlight_sql(arg))

Call_cortex_agent == fn = "call_cortex_agent" /\ Return(call_cortex_agent(arg))

Call_risk_badge == fn = "risk_badge" /\ Return(risk_badge(arg))

\* the searches are called with the default depth
Call_find_sql_in_data ==
    fn = "find_sql_in_data" /\ Return(find_sql_in_data(arg, 0))

Call_find_description_in_data ==
    fn = "find_description_in_data" /\ Return(find_description_in_data(arg, 0))

Call_render_thinking_html ==
    fn = "render_thinking_html" /\ Return(render_thinking_html(arg))

\* the block of the chat handler that follows the for loop
Call_redistribute == fn = "redistribute" /\ Return(Redistribute(arg))

NextFunctions ==
    \/ Call_is_sql
    \/ Call_categorize_status
    \/ Call_highlight_sql
    \/ Call_cortex_agent
    \/ Call_risk_badge
    \/ Call_find_sql_in_data
    \/ Call_find_description_in_data
    \/ Call_render_thinking_html
    \/ Call_redistribute

SpecFunctions == InitFunctions /\ [][NextFunctions]_vars

\* ------------------------------------------------------------------ properties

\* every event id of the alphabets
EventIds == UNION {Menus[m] : m \in 1..Len(Menus)}

\* this step is the event loop handling event id
Handling(id) == pc = "loop" /\ evs' = Append(evs, id)

\* this step is the chat loop taking a tuple of the given mode
Taking(mode) ==
    /\ chat = "loop"
    /\ pending # <<>>
    /\ Head(pending).mode = mode
    /\ out' = Append(out, Head(pending))

Last(s) == s[Len(s)]

IsPrefix(a, b) == Len(a) <= Len(b) /\ SubSeq(b, 1, Len(a)) = a

\* the tuples of one mode among a sequence of tuples, in order
RECURSIVE OfMode(_, _)
OfMode(tuples, mode) ==
    IF tuples = <<>> THEN <<>>
    ELSE (IF Head(tuples).mode = mode THEN <<Head(tuples)>> ELSE <<>>)
         \o OfMode(Tail(tuples), mode)

\* the event loop run over the events ids from fresh locals
RECURSIVE Replay(_, _)
Replay(r, ids) ==
    IF ids = <<>> THEN r
    ELSE Replay(HandleEventData(r, Event(Head(ids))), Tail(ids))

\* the call has ended by stream exhaustion and the caller has every tuple
Exhausted == pc = "completed" /\ pending = <<>>

StepView(s) == <<s.category, s.text>>

\* the events of the current call are all of one kind
AllOfKind(kind) == \A i \in 1..Len(evs) : Event(evs[i]).kind = kind

\* the text field of event id
TextOf(id) == GetText(Event(id).parsed, "text")

\* the texts of a sequence of tuples
Texts(tuples) == [i \in 1..Len(tuples) |-> tuples[i].text]

\* the non-empty text fields of the events ids, in order
RECURSIVE NonEmptyTexts(_)
NonEmptyTexts(ids) ==
    IF ids = <<>> THEN <<>>
    ELSE (IF TextOf(Head(ids)) # <<>> THEN <<TextOf(Head(ids))>> ELSE <<>>)
         \o NonEmptyTexts(Tail(ids))

\* texts[1] \o ... \o texts[k]
RECURSIVE ConcatFirst(_, _)
ConcatFirst(texts, k) ==
    IF k = 0 THEN <<>> ELSE ConcatFirst(texts, k - 1) \o texts[k]

\* the generator waits for the next event and the caller has every tuple
Drained == pc = "loop" /\ pending = <<>>

\* C1 as claimed: when the events of a call are response.text.delta events
\* whose (non-empty) texts are strictly growing prefixes of one another,
\* the payloads of the answer tuples are exactly those texts, in order.
C1_CumulativeEchoed ==
    (/\ Drained
     /\ AllOfKind("response.text.delta")
     /\ \A i \in 1..Len(evs) : TextOf(evs[i]) # <<>>
     /\ \A i \in 1..(Len(evs) - 1) :
            /\ IsPrefix(TextOf(evs[i]), TextOf(evs[i + 1]))
            /\ Len(TextOf(evs[i])) < Len(TextOf(evs[i + 1])))
    => Texts(out) = [i \in 1..Len(evs) |-> TextOf(evs[i])]

\* C1 amended: response.text.delta texts are incremental chunks.  When the
\* events of a call are response.text.delta events, every event with a
\* non-empty text yields one answer tuple, and the k-th answer tuple carries
\* the concatenation of the first k non-empty texts; for the texts "H", "He",
\* "Hel", "Hello" the payloads are "H", "HHe", "HHeHel", "HHeHelHello".
C1_RunningConcatenation ==
    (Drained /\ AllOfKind("response.text.delta")) =>
        LET texts == NonEmptyTexts(evs)
        IN  /\ Len(out) = Len(texts)
            /\ \A k \in 1..Len(out) :
                   /\ out[k].mode = "answer"
                   /\ out[k].text = ConcatFirst(texts, k)

C1_Witness ==
    /\ Drained
    /\ evs = <<15, 16, 17, 18>>
    /\ Texts(out) =
           << <<"H">>, <<"H", "H", "e">>, <<"H", "H", "e", "H", "e", "l">>,
              <<"H", "H", "e", "H", "e", "l", "H", "e", "l", "l", "o">> >>

\* C2 as claimed: reasoning is attributed to the most recently appended
\* non-SQL step, so once a non-SQL step exists no SqlQuery step carries
\* reasoning; after status
\* "Planning approach", tool-result with SQL, reasoning delta "Because..."
\* the text "Because..." is on the Planning step and not on the SqlQuery step.
C2_ReasoningOnNonSqlStep ==
    /\ (\E j \in 1..Len(steps) : steps[j].category # "sql") =>
           \A i \in 1..Len(steps) :
               steps[i].category = "sql" => steps[i].reasoning = <<>>
    /\ (Drained /\ evs = <<1, 2, 3>>) =>
           /\ Len(steps) = 2
           /\ steps[1].reasoning = TxtBecause
           /\ steps[2].reasoning = <<>>

\* the status updates: response.status events whose data is a JSON object
StatusUpdates ==
    {id \in EventIds :
        Event(id).kind = "response.status" /\ Event(id).parsed.t = "dict"}

MessageOf(id) == GetText(Event(id).parsed, "message")

\* no two status tuples in a row (among the status tuples) carry one text
NoRepeatedStatus(tuples) ==
    LET st == OfMode(tuples, "status")
    IN  \A k \in 1..(Len(st) - 1) : st[k].text # st[k + 1].text

\* for the messages "Planning...", "Planning...", "Executing tool": two
\* status tuples and two steps
DuplicateStatusScenario ==
    (Drained /\ evs = <<5, 5, 6>>) =>
        /\ Texts(out) = <<TxtPlanningDots, TxtExecutingTool>>
        /\ Len(OfMode(out, "status")) = 2
        /\ Len(steps) = 2
        /\ StepView(steps[1]) = <<"planning", TxtPlanningDots>>
        /\ StepView(steps[2]) = <<"tool", TxtExecutingTool>>

C5_ToolPayloadTuples ==
    /\ [][Handling(11) => pending' = <<Tuple("sql", TxtSelect1)>>]_vars
    /\ [][Handling(12) => pending' = <<Tuple("status", TxtLookUp)>>]_vars

\* C5 amended: the nested SQL always yields the sql tuple with that SQL; the
\* non-SQL query yields no sql tuple, and yields the status tuple with that
\* description unless the description equals the last status yielded, in
\* which case the event yields nothing.
C5_ToolPayloadTuplesUnlessRepeated ==
    /\ [][Handling(11) => pending' = <<Tuple("sql", TxtSelect1)>>]_vars
    /\ [][Handling(12) =>
             pending' = IF last_status = TxtLookUp
                        THEN <<>>
                        ELSE <<Tuple("status", TxtLookUp)>>]_vars

C5_Witness ==
    /\ Drained
    /\ evs = <<11, 12>>
    /\ out = <<Tuple("sql", TxtSelect1), Tuple("status", TxtLookUp)>>

Unavailable == <<"u", "n", "a", "v", "a", "i", "l", "a", "b", "l", "e">>

\* C6: when the endpoint host is not configured the call yields exactly one
\* tuple, an answer whose message contains "unavailable", and ends; the
\* token is not read, no HTTP request is made and no event is taken.
C6_HostNotConfigured ==
    (~hostSet /\ pc \notin {"idle", "host"}) =>
        /\ pc = "failed"
        /\ out \o pending = <<Tuple("answer", MsgHostMissing)>>
        /\ Contains(MsgHostMissing, Unavailable)
        /\ ~tokenRead
        /\ ~connOpened
        /\ ~respOpen
        /\ evs = <<>>

C6_Witness ==
    /\ ~hostSet
    /\ pc = "failed"
    /\ pending = <<>>
    /\ out = <<Tuple("answer", MsgHostMissing)>>

\* C7 as claimed: the generator never propagates an exception to its caller,
\* whatever reading the token, opening the connection and reading the
\* stream do; a call that fails or times out ends with an answer tuple.
C7_NeverRaises ==
    /\ pc # "raised"
    /\ chat # "crashed"
    /\ pc \in {"failed", "timedout"} => Last(out \o pending).mode = "answer"

\* the answer tuples the current call has yielded so far, in order
Answers == OfMode(out \o pending, "answer")

\* C8 as claimed: within one call the payload of each answer tuple has the
\* payload of the previous answer tuple as a prefix, whatever the events
\* and whether or not the stream ends in a timeout or a transport error.
C8_AnswerGrowsMonotonically ==
    \A i \in 2..Len(Answers) : IsPrefix(Answers[i - 1].text, Answers[i].text)

Streaming == {"host", "token", "post", "loop"}

\* the tuples this step adds to those the call has yielded
Emitted(added) == out' \o pending' = (out \o pending) \o added

\* C9 as claimed: a call moves Idle -> Streaming -> exactly one of
\* Completed, Failed, TimedOut; the terminal state is entered once and
\* nothing is emitted after it; entering TimedOut emits the single timeout
\* answer tuple, a transport exception emits the single answer tuple with
\* the error detail, and Completed is entered from the event loop only.
C9_Lifecycle ==
    [][ /\ pc = "idle" => pc' \in {"idle", "host"}
        /\ pc \in Streaming => pc' \in Streaming \cup Terminal
        /\ pc \in Terminal =>
              \/ pc' = pc /\ Emitted(<<>>)
              \/ pc' = "idle" /\ out' = out /\ pending' = pending
              \/ pc' = "host" /\ out' = <<>> /\ pending' = <<>>
        /\ (pc # "timedout" /\ pc' = "timedout") =>
              pc \in {"post", "loop"} /\ Emitted(Answer(MsgTimeout))
        /\ (pc \in {"post", "loop"} /\ pc' = "failed") =>
              \E text \in {MsgErrorPrefix \o d : d \in ErrorDetails}
                         \cup {MsgHttpPrefix \o IntToStr(c) : c \in ErrorStatusCodes} :
                  Emitted(Answer(text))
        /\ (pc # "completed" /\ pc' = "completed") => pc = "loop"
      ]_vars

Placeholders == {i \in 1..Len(Answers) : Answers[i].text = MsgNoResponse}

\* C10 as claimed: when the stream is exhausted the placeholder answer tuple
\* has been emitted exactly when the call emitted no other answer tuple.
C10_PlaceholderIffNoAnswerTuple ==
    pc = "completed" =>
        (Placeholders # {} <=> Placeholders = 1..Len(Answers))

\* C10: when the stream is exhausted the placeholder answer tuple has been
\* emitted exactly when every other answer tuple of the call carried an
\* empty payload (the accumulated answer text is empty); it is emitted at
\* most once, as the last tuple, and a completed call has an answer tuple.
C10_PlaceholderIffAnswerTextEmpty ==
    pc = "completed" =>
        /\ Answers # <<>>
        /\ Placeholders \subseteq {Len(Answers)}
        /\ Placeholders # {} => Last(out \o pending).text = MsgNoResponse
        /\ Placeholders # {} <=>
              \A i \in 1..Len(Answers) \ Placeholders : Answers[i].text = <<>>
        /\ Placeholders # {} <=> answer_text = <<>>

\* the stream carried only an empty delta: an empty answer tuple, then the
\* placeholder
C10_Witness ==
    /\ pc = "completed"
    /\ evs # <<>>
    /\ Answers = <<Tuple("answer", <<>>), Tuple("answer", MsgNoResponse)>>

\* the event is dropped before it is parsed: empty data, "[DONE]", not JSON
Discarded(ev) == ev.raw # "json"

\* processing the parsed event raises (except Exception: continue)
Raises(ev) ==
    /\ ev.raw = "json"
    /\ \/ ev.kind \in GetKinds /\ ev.parsed.t # "dict"
       \/ /\ ev.kind \notin GetKinds \cup ToolKinds
          /\ DeltaTestRaises(ev.parsed)
       \/ /\ ev.kind = "message.delta"
          /\ ev.parsed.t = "dict"
          /\ HasKey(ev.parsed, "delta")
          /\ Lookup(ev.parsed, "delta").t = "dict"
          /\ HasKey(Lookup(ev.parsed, "delta"), "content")
          /\ LET content == Lookup(Lookup(ev.parsed, "delta"), "content")
             IN  /\ content.t = "list"
                 /\ \E i \in 1..Len(content.v) : PartRaises(content.v[i])

Skipped(id) == Discarded(Event(id)) \/ Raises(Event(id))

NotSkipped(id) == ~Skipped(id)

\* C11 as claimed: an event that is discarded (empty body, "[DONE]", not
\* JSON) or that raises while it is processed emits no tuple and leaves
\* last_status, thinking_text and answer_text unchanged, and the events
\* after it are processed: whenever the loop is between two events, the
\* accumulators and the tuples received are those of the stream with the
\* skipped events removed.
C11_SkippedEventsLeaveNoTrace ==
    (Drained /\ \E i \in 1..Len(evs) : Skipped(evs[i])) =>
        LET r == Replay(Reducer(<<>>, <<>>, <<>>), SelectSeq(evs, NotSkipped))
        IN  /\ last_status = r.last_status
            /\ thinking_text = r.thinking_text
            /\ answer_text = r.answer_text
            /\ out = r.emitted

\* the kinds the event loop has a branch for
RecognizedKinds == GetKinds \cup ToolKinds

\* C12 as claimed: an event of an unrecognized kind emits a sql tuple with
\* the SQL the nested scan finds anywhere in its payload, also when the
\* payload has a top-level "delta" key, and the stream goes on after it.
C12_UnknownKindScannedForSql ==
    [][ \A id \in EventIds :
          (Handling(id) /\ Event(id).kind \notin RecognizedKinds) =>
              /\ pc' = "loop"
              /\ LET sql == find_sql_in_data(Event(id).parsed, 0)
                 IN  sql # None =>
                         \E i \in 1..Len(pending') :
                             pending'[i] = Tuple("sql", sql)
      ]_vars

\* C13 as claimed: when a call has ended, by stream exhaustion, a non-200
\* status, a timeout or any other exception, the HTTP response it opened
\* has been released.
C13_ResponseReleased == (pc \in Terminal \/ pc = "idle") => ~respOpen

\* the SQL statement keywords
SqlStatementKeywords ==
    { <<"S", "E", "L", "E", "C", "T">>,
      <<"W", "I", "T", "H">>,
      <<"I", "N", "S", "E", "R", "T">>,
      <<"U", "P", "D", "A", "T", "E">>,
      <<"D", "E", "L", "E", "T", "E">>,
      <<"C", "R", "E", "A", "T", "E">>,
      <<"A", "L", "T", "E", "R">>,
      <<"D", "R", "O", "P">>,
      <<"M", "E", "R", "G", "E">>,
      <<"C", "A", "L", "L">>,
      <<"S", "H", "O", "W">>,
      <<"D", "E", "S", "C", "R", "I", "B", "E">>,
      <<"E", "X", "P", "L", "A", "I", "N">>,
      <<"G", "R", "A", "N", "T">>,
      <<"R", "E", "V", "O", "K", "E">> }

TxtSelect1Lead ==
    <<" ", " ", "s", "e", "l", "e", "c", "t", " ", "1">>

TxtPleaseRun ==
    <<"p", "l", "e", "a", "s", "e", " ", "r", "u", "n", " ", "a", " ", "r", "e", "p", "o", "r", "t">>

\* the text, after its leading whitespace, starts with the keyword in
\* some case
StartsWithKeyword(s, kw) ==
    \E n \in 0..Len(s) :
        /\ \A i \in 1..n : s[i] \in Whitespace
        /\ n + Len(kw) <= Len(s)
        /\ \A j \in 1..Len(kw) : UpperChar(s[n + j]) = kw[j]

\* C14: _is_sql returns false for a value that is not a string and for the
\* empty string; for a string it returns true if and only if the text,
\* after trimming whitespace and upper-casing, starts with one of SELECT,
\* WITH, INSERT, UPDATE, DELETE, CREATE, ALTER, DROP, MERGE, CALL, SHOW,
\* DESCRIBE, EXPLAIN, GRANT, REVOKE: true for "  select 1", false for
\* "please run a report".
C14_IsSql ==
    (returned /\ fn = "_is_sql") =>
        /\ result \in BOOLEAN
        /\ arg.t # "str" => result = FALSE
        /\ arg.v = <<>> => result = FALSE
        /\ arg.t = "str" =>
              (result <=> \E kw \in SqlStatementKeywords :
                              StartsWithKeyword(arg.v, kw))
        /\ arg = JStr(TxtSelect1Lead) => result = TRUE
        /\ arg = JStr(TxtPleaseRun) => result = FALSE

C14_Witness ==
    /\ returned
    /\ fn = "_is_sql"
    /\ arg = JStr(TxtSelect1Lead)
    /\ result = TRUE

PlanningCues ==
    { <<"p", "l", "a", "n", "n", "i", "n", "g">>,
      <<"c", "h", "o", "o", "s", "i", "n", "g">>,
      <<"r", "e", "t", "h", "i", "n", "k", "i", "n", "g">>,
      <<"r", "e", "v", "i", "e", "w", "i", "n", "g">>,
      <<"n", "e", "x", "t", " ", "s", "t", "e", "p", "s">>,
      <<"d", "a", "t", "a", " ", "s", "o", "u", "r", "c", "e", "s">> }

ToolCues ==
    { <<"r", "u", "n", "n", "i", "n", "g">>,
      <<"s", "t", "r", "e", "a", "m", "i", "n", "g">>,
      <<"g", "e", "t", "t", "i", "n", "g">>,
      <<"e", "x", "e", "c", "u", "t", "i", "n", "g">>,
      <<"c", "o", "n", "t", "e", "x", "t">>,
      <<"s", "q", "l">> }

\* the cue occurs in the message, in any case
HasCue(message, cue) ==
    \E n \in 0..Len(message) :
        /\ n + Len(cue) <= Len(message)
        /\ \A j \in 1..Len(cue) : LowerChar(message[n + j]) = cue[j]

TxtPlanningSql ==
    <<"p", "l", "a", "n", "n", "i", "n", "g", " ", "s", "q", "l">>

\* C15: categorize_status returns "planning" when the lower-cased message
\* contains a planning cue, even if it also contains a tool cue; "tool"
\* exactly when it contains no planning cue and at least one tool cue;
\* and "planning" when it contains neither.
C15_Categorize ==
    (returned /\ fn = "categorize_status") =>
        LET planning == \E cue \in PlanningCues : HasCue(arg, cue)
            tool     == \E cue \in ToolCues : HasCue(arg, cue)
        IN  /\ result \in {"planning", "tool"}
            /\ planning => result = "planning"
            /\ result = "tool" <=> (~planning /\ tool)
            /\ (~planning /\ ~tool) => result = "planning"

\* a message with a planning cue and a tool cue
C15_Witness ==
    /\ returned
    /\ fn = "categorize_status"
    /\ arg = TxtPlanningSql
    /\ result = "planning"

\* the end of the line that holds position i of the text
LineEnd(s, i) ==
    CHOOSE e \in i..Len(s) :
        /\ \A n \in i..e : s[n] # "\n"
        /\ e = Len(s) \/ s[e + 1] = "\n"

\* The positions of an SQL text from i on that lie inside a single-quoted
\* string literal, a block comment or a line comment, reading the text
\* from left to right as SQL.
RECURSIVE Inside(_, _)
Inside(s, i) ==
    IF i > Len(s) THEN {}
    ELSE LET quotes == {j \in (i + 1)..Len(s) : s[j] = "'"}
             closes == {j \in (i + 2)..(Len(s) - 1) : s[j] = "*" /\ s[j + 1] = "/"}
             first(js) == CHOOSE j \in js : \A x \in js : j <= x
         IN  IF s[i] = "'" /\ quotes # {}
             THEN ((i + 1)..(first(quotes) - 1)) \cup Inside(s, first(quotes) + 1)
             ELSE IF i < Len(s) /\ s[i] = "/" /\ s[i + 1] = "*" /\ closes # {}
             THEN ((i + 2)..(first(closes) - 1)) \cup Inside(s, first(closes) + 2)
             ELSE IF i < Len(s) /\ s[i] = "-" /\ s[i + 1] = "-"
             THEN ((i + 2)..LineEnd(s, i + 1)) \cup Inside(s, LineEnd(s, i + 1) + 1)
             ELSE Inside(s, i + 1)

\* the positions of the input characters found in the items
RECURSIVE Positions(_)
Positions(items) ==
    IF items = <<>> THEN {}
    ELSE (IF Head(items).k = "ch" THEN {Head(items).pos}
          ELSE Positions(Head(items).body))
         \cup Positions(Tail(items))

\* the spans of the given colors in the items, at any depth
RECURSIVE Spans(_, _)
Spans(items, colors) ==
    IF items = <<>> THEN {}
    ELSE (IF Head(items).k = "span"
          THEN (IF Head(items).color \in colors THEN {Head(items)} ELSE {})
               \cup Spans(Head(items).body, colors)
          ELSE {})
         \cup Spans(Tail(items), colors)

Recolored(items) ==
    UNION {Positions(span.body) :
              span \in Spans(items, {"keyword", "function", "number"})}

\* C16 as claimed: _highlight_sql never wraps text that lies inside a
\* single-quoted string literal, a block comment or a line comment in
\* keyword, function or number markup, whatever characters the literal
\* holds; and for "SELECT 'SELECT' FROM t -- SELECT" the only keyword
\* span around a SELECT is the one on the first word.
C16_LiteralsAndCommentsNotRecolored ==
    (returned /\ fn = "_highlight_sql") =>
        /\ Recolored(result) \cap Inside(arg, 1) = {}
        /\ arg = TxtSelectExample =>
              {Positions(span.body) :
                  span \in {x \in Spans(result, {"keyword"}) :
                               Len(x.body) = 6 /\ x.body[1].c = "S"}}
                  = {1..6}

\* C17 as claimed: call_cortex_agent never raises to its caller: with the
\* host missing, the token missing or unreadable, a non-200 status, a
\* timeout, a connection failure, a body that is not JSON and a decoded
\* body of any shape, it returns a string.
C17_AskNeverRaises ==
    (returned /\ fn = "call_cortex_agent") =>
        /\ result.kind = "return"
        /\ result.val.t = "str"

\* the badge carries the CSS class
HasClass(badge, css) == Contains(badge, BadgeOpen \o css \o <<"\"">>)

TxtUnknown ==
    <<"U", "N", "K", "N", "O", "W", "N">>

\* C18 as claimed: risk_badge gives LOW, HIGH and CRITICAL the classes
\* risk-low, risk-high and risk-critical, and gives any level it does not
\* recognize, such as "UNKNOWN", the class risk-medium.
C18_RiskBadgeClasses ==
    (returned /\ fn = "risk_badge" /\ arg.t = "str" /\ arg.v # <<>>) =>
        /\ Upper(arg.v) = TxtLow => HasClass(result, CssLow)
        /\ Upper(arg.v) = TxtHigh => HasClass(result, CssHigh)
        /\ Upper(arg.v) = TxtCritical => HasClass(result, CssCritical)
        /\ Upper(arg.v) \notin {TxtLow, TxtMedium, TxtHigh, TxtCritical} =>
              HasClass(result, CssMedium)
        /\ arg.v = TxtUnknown => HasClass(result, CssMedium)

\* the strings of a payload, each with the depth it is nested at (the
\* payload itself is at depth 0) and the key of the field that holds it
RECURSIVE StringsIn(_, _, _)
StringsIn(x, depth, key) ==
    IF x.t = "str" THEN {[text |-> x.v, depth |-> depth, key |-> key]}
    ELSE IF x.t = "dict"
    THEN UNION {StringsIn(x.v[i].val, depth + 1, x.v[i].k) : i \in 1..Len(x.v)}
    ELSE IF x.t = "list"
    THEN UNION {StringsIn(x.v[i], depth + 1, "") : i \in 1..Len(x.v)}
    ELSE {}

\* the text is SQL: after its leading whitespace it starts with a keyword
AcceptedText(s) == \E kw \in SqlStatementKeywords : StartsWithKeyword(s, kw)

Named == {"sql", "generated_sql", "sql_query"}

Asked == {"query", "statement"}

\* what each search looks for
Matches(f, payload) ==
    {l \in StringsIn(payload, 0, "") :
        IF f = "find_sql_in_data" THEN AcceptedText(l.text)
        ELSE l.key \in Asked /\ l.text # <<>> /\ ~AcceptedText(l.text)}

\* what the depth-bounded search can reach: the values down to the cap,
\* and the fields it reads directly from a dict at the cap
Reach(f, l) ==
    \/ l.depth <= MaxDepth
    \/ /\ l.depth = MaxDepth + 1
       /\ l.key \in (IF f = "find_sql_in_data" THEN Named \cup Asked ELSE Asked)

\* the fields of the payload, among keys, that hold SQL
SqlFields(payload, keys) ==
    {k \in keys :
        /\ payload.t = "dict"
        /\ HasKey(payload, k)
        /\ Lookup(payload, k).t = "str"
        /\ AcceptedText(Lookup(payload, k).v)}

C20_NothingBelowTheCap ==
    (returned /\ fn \in {"find_sql_in_data", "find_description_in_data"}) =>
        /\ (\A l \in Matches(fn, arg) : l.depth > MaxDepth) => result = None
        /\ (\E l \in Matches(fn, arg) : l.depth <= MaxDepth) => result # None

\* C20: both searches return not-found exactly when no matching value
\* lies within their reach: they visit the dicts, lists and strings
\* nested at depth 0 to 5 and nothing deeper, and in a dict at depth 5
\* they still read the fields they look up by name (sql, generated_sql,
\* sql_query, query, statement), whose values are nested at depth 6.
C20_CappedSearch ==
    (returned /\ fn \in {"find_sql_in_data", "find_description_in_data"}) =>
        (result = None <=> \A l \in Matches(fn, arg) : ~Reach(fn, l))

\* SQL in the sql field of a dict at the cap: found, one level below it
C20_Witness ==
    /\ returned
    /\ fn = "find_sql_in_data"
    /\ arg = Wrapped(JDict(<<KV("sql", JStr(TxtSelect1))>>), MaxDepth, TRUE)
    /\ result = TxtSelect1

\* the thinking tuples the current call has yielded so far, in order
Thinkings == OfMode(out \o pending, "thinking")

\* the non-empty texts of the reasoning deltas among the events ids
RECURSIVE ReasoningTexts(_)
ReasoningTexts(ids) ==
    IF ids = <<>> THEN <<>>
    ELSE (IF /\ Event(Head(ids)).kind = "response.thinking.delta"
             /\ TextOf(Head(ids)) # <<>>
          THEN <<TextOf(Head(ids))>>
          ELSE <<>>)
         \o ReasoningTexts(Tail(ids))

\* C21: the payload of each thinking tuple of a call has the payload of
\* the previous thinking tuple as a proper prefix, and the k-th thinking
\* tuple carries the concatenation of the texts of the first k reasoning
\* deltas (those with a text) received in the call.
C21_ThinkingCumulative ==
    /\ \A i \in 2..Len(Thinkings) :
           /\ IsPrefix(Thinkings[i - 1].text, Thinkings[i].text)
           /\ Len(Thinkings[i - 1].text) < Len(Thinkings[i].text)
    /\ Len(Thinkings) = Len(ReasoningTexts(evs))
    /\ \A k \in 1..Len(Thinkings) :
           Thinkings[k].text = ConcatFirst(ReasoningTexts(evs), k)

\* two reasoning deltas among other events: two thinking tuples, the
\* second with both texts
C21_Witness ==
    /\ Drained
    /\ evs = <<3, 5, 37>>
    /\ Texts(Thinkings) = <<TxtBecause, TxtBecause \o TxtThen>>

\* the final-response events: kind "response" with a JSON object
ResponseEvents ==
    {id \in EventIds :
        Event(id).kind = "response" /\ Event(id).parsed.t = "dict"}

\* the texts of the type == text parts of a content list, concatenated
RECURSIVE PartsText(_)
PartsText(items) ==
    IF items = <<>> THEN <<>>
    ELSE (IF /\ Head(items).t = "dict"
             /\ GetText(Head(items), "type") = TextType
          THEN GetText(Head(items), "text")
          ELSE <<>>)
         \o PartsText(Tail(items))

\* the embedded text content of a final-response event
EmbeddedText(id) ==
    LET parsed == Event(id).parsed
    IN  IF HasKey(parsed, "content") /\ Lookup(parsed, "content").t = "list"
        THEN PartsText(Lookup(parsed, "content").v)
        ELSE <<>>

\* C22: a final-response event handled when no answer text has been
\* accumulated makes the answer the text of its type == text content
\* parts and yields it as the answer tuple; handled when answer text has
\* been accumulated it yields nothing and leaves the answer as it is.
C22_FinalResponseOnlyWhenNoAnswer ==
    [][\A id \in ResponseEvents :
          Handling(id) =>
              IF answer_text = <<>>
              THEN /\ answer_text' = EmbeddedText(id)
                   /\ pending' = IF EmbeddedText(id) # <<>>
                                 THEN Answer(EmbeddedText(id))
                                 ELSE <<>>
              ELSE /\ answer_text' = answer_text
                   /\ pending' = <<>>]_vars

\* the reasoning excerpts a fragment shows, in order: the escaped texts
\* of its reasoning blocks
RECURSIVE Excerpts(_)
Excerpts(fragment) ==
    IF Len(fragment) < 2 THEN <<>>
    ELSE (IF Head(fragment).k = "markup" /\ Head(fragment).v = ReasoningOpen
          THEN <<fragment[2].v>>
          ELSE <<>>)
         \o Excerpts(Tail(fragment))

\* the excerpt of a reasoning: all of it up to 1500 characters, else its
\* first 1500 characters and the ellipsis
Excerpt(reasoning) ==
    IF Len(reasoning) <= 1500 THEN reasoning
    ELSE SubSeq(reasoning, 1, 1500) \o <<Ellipsis>>

\* the excerpts of the steps of the given categories that hold reasoning
RECURSIVE ExcerptsOf(_, _)
ExcerptsOf(list, categories) ==
    IF list = <<>> THEN <<>>
    ELSE (IF Head(list).reasoning # <<>> /\ Head(list).category \in categories
          THEN <<[p \in 1..Len(Excerpt(Head(list).reasoning)) |->
                     Escape(Excerpt(Head(list).reasoning)[p])]>>
          ELSE <<>>)
         \o ExcerptsOf(Tail(list), categories)

\* C23: the fragment render_thinking_html returns shows, for every step
\* with a non-empty reasoning, of any category (SqlQuery included) and in
\* step order, the excerpt of that reasoning: the whole reasoning when it
\* has at most 1500 characters, else its first 1500 characters followed
\* by the ellipsis.
C23_ReasoningExcerptOfEveryStep ==
    (returned /\ fn = "render_thinking_html") =>
        Excerpts(result) = ExcerptsOf(arg, {"planning", "tool", "sql"})

\* a content as the claim takes it: a plain string, or a list of typed
\* parts whose text, if any, is a string
PlainContent(content) ==
    \/ content.t = "str"
    \/ /\ content.t = "list"
       /\ \A i \in 1..Len(content.v) :
              /\ content.v[i].t = "dict"
              /\ HasKey(content.v[i], "text") =>
                     Lookup(content.v[i], "text").t = "str"

PlainMessage(msg) ==
    /\ msg.t = "dict"
    /\ HasKey(msg, "content") => PlainContent(Lookup(msg, "content"))

\* a 200 body of the documented shapes: an object whose messages, if
\* any, are a list of messages and whose message, if any, is a message
PlainBody(body) ==
    /\ body.t = "dict"
    /\ HasKey(body, "messages") =>
           /\ Lookup(body, "messages").t = "list"
           /\ \A i \in 1..Len(Lookup(body, "messages").v) :
                  PlainMessage(Lookup(body, "messages").v[i])
    /\ HasKey(body, "message") => PlainMessage(Lookup(body, "message"))

\* the messages of a body: its messages list, else its singular message
MessagesOf(body) ==
    IF HasKey(body, "messages") /\ Lookup(body, "messages").v # <<>>
    THEN Lookup(body, "messages").v
    ELSE IF HasKey(body, "message") THEN <<Lookup(body, "message")>>
    ELSE <<>>

\* the non-empty texts of one content
RECURSIVE ContentTexts(_)
ContentTexts(items) ==
    IF items = <<>> THEN <<>>
    ELSE (IF /\ GetText(Head(items), "type") = TextType
             /\ GetText(Head(items), "text") # <<>>
          THEN <<GetText(Head(items), "text")>>
          ELSE <<>>)
         \o ContentTexts(Tail(items))

\* the non-empty assistant-authored texts of a sequence of messages
RECURSIVE AssistantTexts(_)
AssistantTexts(messages) ==
    IF messages = <<>> THEN <<>>
    ELSE LET msg == Head(messages)
             content == IF HasKey(msg, "content") THEN Lookup(msg, "content")
                        ELSE JList(<<>>)
         IN  (IF GetText(msg, "role") # TxtAssistant THEN <<>>
              ELSE IF content.t = "str"
              THEN (IF content.v # <<>> THEN <<content.v>> ELSE <<>>)
              ELSE ContentTexts(content.v))
             \o AssistantTexts(Tail(messages))

\* texts[1] "\n" texts[2] "\n" ...
RECURSIVE Lines(_)
Lines(texts) ==
    IF texts = <<>> THEN <<>>
    ELSE IF Len(texts) = 1 THEN texts[1]
    ELSE texts[1] \o <<"\n">> \o Lines(Tail(texts))

\* C24: on a 200 response whose body has one of the documented shapes,
\* call_cortex_agent returns the non-empty assistant-authored texts of the
\* body joined with newlines when there are any, otherwise the top-level
\* text field when the body has one, and otherwise "No response from
\* agent."; it returns that string exactly when the body holds no
\* non-empty assistant text and no top-level text.
C24_AskReturnsAssistantText ==
    (/\ returned
     /\ fn = "call_cortex_agent"
     /\ arg.host
     /\ arg.token = "ok"
     /\ arg.post = "200"
     /\ PlainBody(arg.body)) =>
        LET texts == AssistantTexts(MessagesOf(arg.body))
        IN  /\ result.kind = "return"
            /\ result.val =
                   IF texts # <<>> THEN JStr(Lines(texts))
                   ELSE IF HasKey(arg.body, "text") THEN Lookup(arg.body, "text")
                   ELSE JStr(MsgNoResponse)
            /\ result.val = JStr(MsgNoResponse) <=>
                   (texts = <<>> /\ ~HasKey(arg.body, "text"))

\* the blank-line-separated chunks of a reasoning
Chunks(reasoning) == StripNonEmpty(SplitBlankLines(reasoning))

\* the positions of the non-SQL steps of a list
NonSql(list) == {i \in 1..Len(list) : list[i].category # "sql"}

Holding(list) == {i \in NonSql(list) : list[i].reasoning # <<>>}

\* the chunks of the steps at the positions from i on, in step order
RECURSIVE ChunksFrom(_, _)
ChunksFrom(list, i) ==
    IF i > Len(list) THEN <<>>
    ELSE (IF list[i].category # "sql" THEN Chunks(list[i].reasoning) ELSE <<>>)
         \o ChunksFrom(list, i + 1)

\* the reconciliation acts on the list
Acts(list) ==
    /\ Cardinality(Holding(list)) = 1
    /\ NonSql(list) \ Holding(list) # {}
    /\ \A i \in Holding(list) :
           Len(Chunks(list[i].reasoning)) >= Cardinality(NonSql(list))

\* C25: the post-stream reconciliation changes the steps only when
\* exactly one non-SQL step holds reasoning, another non-SQL step holds
\* none, and the reasoning has at least as many blank-line-separated
\* chunks as there are non-SQL steps; then every non-SQL step receives at
\* least one chunk, and the chunks of the non-SQL steps read in step
\* order are the original chunks in their order; otherwise the steps are
\* left as they are.  SQL steps, and the category and text of every
\* step, are never changed.
C25_Redistribution ==
    (returned /\ fn = "redistribute") =>
        /\ Len(result) = Len(arg)
        /\ \A i \in 1..Len(arg) :
               /\ result[i].category = arg[i].category
               /\ result[i].text = arg[i].text
               /\ arg[i].category = "sql" => result[i] = arg[i]
        /\ result # arg => Acts(arg)
        /\ ~Acts(arg) => result = arg
        /\ Acts(arg) =>
               /\ \A i \in NonSql(arg) : Chunks(result[i].reasoning) # <<>>
               /\ ChunksFrom(result, 1) = ChunksFrom(arg, 1)

\* three chunks on the last of two non-SQL steps around an SQL step: the
\* first gets one chunk, the last the other two
C25_Witness ==
    /\ returned
    /\ fn = "redistribute"
    /\ Len(arg) = 3
    /\ arg[1] = [category |-> "planning", text |-> TxtSelect1, reasoning |-> <<>>]
    /\ arg[2].category = "sql"
    /\ arg[3] = [category |-> "planning", text |-> TxtSelect1,
                 reasoning |-> TxtThreeChunks]
    /\ result[1].reasoning = TxtA
    /\ result[2] = arg[2]
    /\ result[3].reasoning = <<"b", "\n", "\n", "c">>

\* this step starts a chat interaction / completes one
Starting == chat # "loop" /\ chat' = "loop"

Completing == chat = "loop" /\ chat' = "ready"

\* C26: a chat interaction appends one user turn to the session history
\* when it starts and, when it completes, one assistant turn right after
\* it, whose content is the payload of the last answer tuple of the call
\* and whose steps are the final step list; no step changes or removes a
\* turn that is in the history.
C26_OneUserOneAssistantTurn ==
    [][/\ IsPrefix(agent_messages, agent_messages')
       /\ Starting =>
              /\ Len(agent_messages') = Len(agent_messages) + 1
              /\ Last(agent_messages').role = "user"
       /\ Completing =>
              /\ Len(agent_messages') = Len(agent_messages) + 1
              /\ Last(agent_messages).role = "user"
              /\ Last(agent_messages').role = "assistant"
              /\ OfMode(out, "answer") # <<>>
              /\ Last(agent_messages').content = Last(OfMode(out, "answer")).text
              /\ Last(agent_messages').thinking_steps = steps'
       /\ (~Starting /\ ~Completing) => agent_messages' = agent_messages
      ]_vars

\* two interactions completed: user, assistant, user, assistant, the
\* first assistant turn with its steps
C26_Witness ==
    /\ chat = "ready"
    /\ Len(agent_messages) = 4
    /\ [i \in 1..4 |-> agent_messages[i].role] =
           <<"user", "assistant", "user", "assistant">>
    /\ agent_messages[2].thinking_steps # <<>>
    /\ agent_messages[2].content = TxtAnswer42

\* the call has ended: in a terminal state, or by raising
Ended == pc \in Terminal \/ pc = "raised"

\* C27: a streaming call that has ended, on whatever path, has emitted
\* at least one answer tuple, and once the caller has taken every tuple
\* its final answer string is not empty.
C27_AnswerBeforeTermination ==
    /\ Ended => Answers # <<>>
    /\ (Ended /\ pending = <<>>) => full_response # <<>>

\* the positions of the steps that repeat the step before them
Repeats(list, categories) ==
    {i \in 2..Len(list) :
        /\ list[i].category \in categories
        /\ list[i].category = list[i - 1].category
        /\ list[i].text = list[i - 1].text}

\* C28: the step list never holds two adjacent steps with the same
\* category and the same text; in particular after two consecutive
\* events with the same SQL there are no two adjacent equal SqlQuery
\* steps.
C28_NoAdjacentEqualSteps ==
    /\ Repeats(steps, {"planning", "tool", "sql"}) = {}
    /\ (Drained /\ evs = <<2, 2>>) =>
           ~(Len(steps) = 2 /\ StepView(steps[1]) = StepView(steps[2]))

\* the reasoning fields of the steps, concatenated in step order
RECURSIVE AllReasoning(_)
AllReasoning(list) ==
    IF list = <<>> THEN <<>>
    ELSE Head(list).reasoning \o AllReasoning(Tail(list))

\* the payload of the latest thinking tuple the chat loop has taken
LatestThinking ==
    IF OfMode(out, "thinking") = <<>> THEN <<>>
    ELSE Last(OfMode(out, "thinking")).text

\* C29: while the chat loop runs, before the post-stream reconciliation,
\* the reasoning fields of the steps concatenated in step order equal the
\* payload of the latest thinking tuple taken, also when reasoning
\* arrives before the first step is appended.
C29_NoReasoningLost ==
    chat = "loop" => AllReasoning(steps) = LatestThinking

\* the status and sql tuples among a sequence of tuples, in order
RECURSIVE StepTuples(_)
StepTuples(tuples) ==
    IF tuples = <<>> THEN <<>>
    ELSE (IF Head(tuples).mode \in {"status", "sql"} THEN <<Head(tuples)>>
          ELSE <<>>)
         \o StepTuples(Tail(tuples))

\* the i-th of the status and sql tuples is a status tuple with the
\* text of the tuple before it
RepeatsText(st, i) ==
    /\ i > 1
    /\ st[i].mode = "status"
    /\ st[i].text = st[i - 1].text

\* the tuples from the i-th on that do not repeat the text before them
RECURSIVE NotRepeating(_, _)
NotRepeating(st, i) ==
    IF i > Len(st) THEN <<>>
    ELSE (IF RepeatsText(st, i) THEN <<>> ELSE <<st[i]>>)
         \o NotRepeating(st, i + 1)

\* the steps are, in order, the steps of the tuples: an sql tuple gives
\* an SqlQuery step, a status tuple a Planning or ToolExecution step,
\* with the text of the tuple
StepsOfTuples(list, tuples) ==
    /\ Len(list) = Len(tuples)
    /\ \A k \in 1..Len(list) :
           /\ list[k].text = tuples[k].text
           /\ list[k].category \in
                  (IF tuples[k].mode = "sql" THEN {"sql"}
                   ELSE {"planning", "tool"})

\* C30 as claimed: the steps are in one-to-one, order-preserving
\* correspondence with the status and sql tuples received, so there are
\* as many steps as status tuples plus sql tuples, also when a status
\* tuple carries the text of the SqlQuery step just before it.
C30_StepPerStatusAndSqlTuple ==
    /\ StepsOfTuples(steps, StepTuples(out))
    /\ Len(steps) = Len(OfMode(out, "status")) + Len(OfMode(out, "sql"))

\* C30 amended: the steps are in one-to-one, order-preserving
\* correspondence with the status and sql tuples received other than the
\* status tuples that carry the text of the tuple just before them, which
\* is then an sql tuple: every sql tuple appends one SqlQuery step, and
\* every status tuple one Planning/ToolExecution step unless its text is
\* the text of the SqlQuery step just before it, in which case it appends
\* nothing; the number of steps is the number of status and sql tuples
\* less the number of those status tuples.
C30_StepPerTupleUnlessRepeated ==
    LET st == StepTuples(out)
    IN  /\ StepsOfTuples(steps, NotRepeating(st, 1))
        /\ \A i \in 1..Len(st) : RepeatsText(st, i) => st[i - 1].mode = "sql"
        /\ Len(steps) =
               Len(st) - Cardinality({i \in 1..Len(st) : RepeatsText(st, i)})

\* a tool event yields SQL, then a status update carries the same text
\* (and yields it as status and as SQL): three tuples, two steps
C30_Witness ==
    /\ Drained
    /\ evs = <<8, 9>>
    /\ [i \in 1..Len(out) |-> out[i].mode] = <<"sql", "status", "sql">>
    /\ [i \in 1..Len(steps) |-> steps[i].category] = <<"sql", "sql">>

\* C3: for the events status "Planning approach", tool-result with
\* {"sql": "SELECT COUNT(*) FROM LOADS"}, reasoning delta "Because...", text
\* delta "The answer is 42." the caller receives exactly the tuples (status),
\* (sql), (thinking), (answer) with those texts in that order, the steps are
\* one Planning step followed by one SqlQuery step and the answer is "The
\* answer is 42."; and when any call has ended, the tuples the caller has
\* received are the tuples of the events in arrival order, followed by at
\* most one closing tuple.
C3_EndToEnd ==
    /\ (Exhausted /\ evs = <<1, 2, 3, 4>>) =>
           /\ out = <<Tuple("status", TxtPlanningApproach),
                      Tuple("sql", TxtSqlCount),
                      Tuple("thinking", TxtBecause),
                      Tuple("answer", TxtAnswer42)>>
           /\ Len(steps) = 2
           /\ StepView(steps[1]) = <<"planning", TxtPlanningApproach>>
           /\ StepView(steps[2]) = <<"sql", TxtSqlCount>>
           /\ full_response = TxtAnswer42
    /\ (pending = <<>> /\ pc \in Terminal) =>
           LET byEvents == Replay(Reducer(<<>>, <<>>, <<>>), evs).emitted
           IN  /\ IsPrefix(byEvents, out)
               /\ Len(out) <= Len(byEvents) + 1

C3_Witness == Exhausted /\ evs = <<1, 2, 3, 4>> /\ Len(out) = 4

====
